---- MODULE Spec2Model ----
(***************************************************************************)
(* A model of the zpack constraint planner: the package outline graph     *)
(* (SpecOutline::new), default propagation (propagate_defaults) and the    *)
(* solver builder (gen_spec_solver) with the optimizer's check.            *)
(***************************************************************************)
EXTENDS Integers, Sequences, FiniteSets, TLC

VARIABLES
    input,   \* the outlines handed to SpecOutline::new, in Vec order, and `required`
    graph,   \* SpecOutline: the result of new(), with the nodes' set_defaults
    pd,      \* propagate_defaults: its position, reason_tracker and result
    last,    \* the (src, dep, option) triple the inner loop handled last
    sv       \* gen_spec_solver: its phase, the registry, the optimizer, the plan

vars == <<input, graph, pd, last, sv>>

----------------------------------------------------------------------------
(* Bounds *)

\* Number of outlines handed to SpecOutline::new in the graph specification.
MaxNodes == 2
\* Total number of constraints declared over all outlines (graph specification).
MaxConstraints == 2
\* Largest integer payload of an option value.
MaxVal == 2

----------------------------------------------------------------------------
(* Option values: spec::SpecOptionValue, and None of Option<SpecOptionValue> *)

BoolVal(b) == [t |-> "Bool", v |-> IF b THEN 1 ELSE 0]
IntVal(i) == [t |-> "Int", v |-> i]
NoneVal == [t |-> "None", v |-> 0]
\* SpecOptionValue::Version; the payload is the number of the version among
\* the versions a run mentions.
VersionVal(i) == [t |-> "Version", v |-> i]

to_type(value) == value.t

----------------------------------------------------------------------------
(* The constraint AST: package::constraint::Constraint *)

Depends(p) == [k |-> "Depends", on |-> p]
SpecOption(p, o) == [k |-> "SpecOption", package_name |-> p, option_name |-> o]
Value(val) == [k |-> "Value", value |-> val]
Cmp(l, r, o) == [k |-> "Cmp", lhs |-> l, rhs |-> r, op |-> o]
IfThen(c, t) == [k |-> "IfThen", cond |-> c, then |-> t]
NumOf(s) == [k |-> "NumOf", of |-> s]
Maximize(i) == [k |-> "Maximize", item |-> i]
Minimize(i) == [k |-> "Minimize", item |-> i]

Range(s) == {s[i] : i \in DOMAIN s}

\* Every Depends atom of a constraint tree, whatever node it sits under.
RECURSIVE DependsAtoms(_)
DependsAtoms(c) ==
    CASE c.k = "Depends" -> {c.on}
      [] c.k = "Cmp" -> DependsAtoms(c.lhs) \cup DependsAtoms(c.rhs)
      [] c.k = "IfThen" -> DependsAtoms(c.cond) \cup DependsAtoms(c.then)
      [] c.k = "NumOf" -> UNION {DependsAtoms(c.of[i]) : i \in DOMAIN c.of}
      [] c.k \in {"Maximize", "Minimize"} -> DependsAtoms(c.item)
      [] OTHER -> {}

\* A Cmp reports no dependencies at all.
Cmp_extract_dependencies(c) == {}

RECURSIVE extract_dependencies(_)
extract_dependencies(c) ==
    CASE c.k = "Depends" -> {c.on}
      [] c.k = "SpecOption" -> {}
      [] c.k = "Value" -> {}
      [] c.k = "Cmp" -> Cmp_extract_dependencies(c)
      [] c.k = "IfThen" ->
            extract_dependencies(c.cond) \cup extract_dependencies(c.then)
      [] c.k = "NumOf" ->
            UNION {extract_dependencies(c.of[i]) : i \in DOMAIN c.of}
      [] c.k = "Maximize" -> extract_dependencies(c.item)
      [] c.k = "Minimize" -> extract_dependencies(c.item)

----------------------------------------------------------------------------
(* PackageOutline and SpecOutline::new *)

Pkgs == {"a", "b", "c", "d"}
Opts == {"opt"}

PackageOutline(cs, so, sd) ==
    [constraints |-> cs, set_options |-> so, set_defaults |-> sd]

\* PackageOutline::dependencies, as the names it holds and how often: the Vec
\* holds one entry per constraint whose dependency set has the name.
dependencies(outline, p) ==
    Cardinality({i \in DOMAIN outline.constraints :
                    p \in extract_dependencies(outline.constraints[i])})

dependency_names(outline) ==
    UNION {extract_dependencies(outline.constraints[i]) :
              i \in DOMAIN outline.constraints}

\* A lookup that never misses (the variant C5 is tested against).
FirstMissing_none(nodes, outlines) == {}

\* The names new() can meet first without an entry in `lookup`: it walks the nodes
\* in index order and each node's constraints in order; the names of one
\* constraint come out of a HashSet, in any order.
FirstMissing(nodes, outlines) ==
    LET known == Range(nodes)
        bad(n) == dependency_names(outlines[n]) \ known
        badNodes == {i \in DOMAIN nodes : bad(nodes[i]) # {}}
    IN  IF badNodes = {} THEN {}
        ELSE LET i == CHOOSE j \in badNodes : \A m \in badNodes : j <= m
                 cs == outlines[nodes[i]].constraints
                 badCs == {j \in DOMAIN cs : extract_dependencies(cs[j]) \ known # {}}
                 j == CHOOSE m \in badCs : \A q \in badCs : m <= q
             IN  extract_dependencies(cs[j]) \ known

\* graph.extend_with_edges(edges): one edge per entry of dependencies().
Edges(nodes, outlines) ==
    [e \in Range(nodes) \X Range(nodes) |-> dependencies(outlines[e[1]], e[2])]

NoGraph ==
    [status |-> "none", dep |-> "", edges |-> <<>>, defaults |-> <<>>,
     set_options |-> <<>>, constraints |-> <<>>]

\* The graph new() returns: the outlines are its node weights (their
\* set_defaults, set_options and constraints, by name), one edge per entry of
\* dependencies().
SpecOutline_new(nodes, outlines, dep) ==
    IF FirstMissing(nodes, outlines) # {}
    THEN [NoGraph EXCEPT !.status = "missing", !.dep = dep]
    ELSE [status |-> "ok", dep |-> "",
          edges |-> Edges(nodes, outlines),
          defaults |-> [n \in Range(nodes) |-> outlines[n].set_defaults],
          set_options |-> [n \in Range(nodes) |-> outlines[n].set_options],
          constraints |-> [n \in Range(nodes) |-> outlines[n].constraints]]

EdgeTargets(n) == {m \in Range(input.nodes) : graph.edges[<<n, m>>] > 0}

----------------------------------------------------------------------------
(* The graph specification: any small set of outlines, then new() *)

GraphPool ==
    {Depends(p) : p \in {"a", "b", "c"}} \cup
    { Cmp(NumOf(<<Depends("b"), Depends("c")>>), Value(IntVal(1)), "=="),
      IfThen(SpecOption("a", "x"), Depends("c")),
      NumOf(<<IfThen(SpecOption("a", "x"), Depends("b"))>>),
      Maximize(NumOf(<<Depends("b")>>)),
      Minimize(NumOf(<<Depends("c")>>)) }

GraphPkgs == {"a", "b", "c"}

Injective(s) == \A i, j \in DOMAIN s : s[i] = s[j] => i = j

NodeSeqs ==
    {s \in UNION {[1..n -> GraphPkgs] : n \in 1..MaxNodes} : Injective(s)}

\* Declarations: (index of the node, constraint) in the order they are declared.
Decls(nodes) ==
    UNION {[1..n -> (DOMAIN nodes) \X GraphPool] : n \in 0..MaxConstraints}

RECURSIVE ConstraintsOf(_, _)
ConstraintsOf(decl, i) ==
    IF decl = <<>> THEN <<>>
    ELSE LET rest == ConstraintsOf(Tail(decl), i)
         IN  IF Head(decl)[1] = i THEN <<Head(decl)[2]>> \o rest ELSE rest

\* The outlines a declaration sequence gives the nodes `ns`.
GraphInput(ns, decl) ==
    [nodes |-> ns,
     outlines |-> [n \in Range(ns) |->
         PackageOutline(
             ConstraintsOf(decl, CHOOSE i \in DOMAIN ns : ns[i] = n),
             <<>>, <<>>)],
     required |-> <<>>]

NoSolver == [pc |-> "none"]

Absent == [t |-> "Absent", v |-> 0]
NoError == [kind |-> "none"]

\* propagate_defaults before its call number `run`; `after1` holds the
\* set_defaults the first call left.
PdIdle(run, after1) ==
    [pc |-> "idle", run |-> run, after1 |-> after1, visited |-> {},
     reason_tracker |-> <<>>, src |-> "", src_defaults |-> <<>>, deps |-> <<>>,
     dep |-> "", opts |-> {}, result |-> NoError]

IdlePd == PdIdle(1, <<>>)
NoLast == [src |-> "", dep |-> "", opt |-> "", src_val |-> Absent,
           old |-> Absent, tracked |-> FALSE]

GraphInit ==
    /\ \E ns \in NodeSeqs : \E decl \in Decls(ns) : input = GraphInput(ns, decl)
    /\ graph = NoGraph
    /\ pd = IdlePd
    /\ last = NoLast
    /\ sv = NoSolver

NewOk ==
    /\ graph.status = "none"
    /\ FirstMissing(input.nodes, input.outlines) = {}
    /\ graph' = SpecOutline_new(input.nodes, input.outlines, "")
    /\ UNCHANGED <<sv, input, pd, last>>

NewMissing ==
    /\ graph.status = "none"
    /\ \E dep \in FirstMissing(input.nodes, input.outlines) :
          graph' = SpecOutline_new(input.nodes, input.outlines, dep)
    /\ UNCHANGED <<sv, input, pd, last>>

GraphNext == NewOk \/ NewMissing

SpecGraph == GraphInit /\ [][GraphNext]_vars

----------------------------------------------------------------------------
(* Claims about graph construction *)

\* C5: new() returns a graph only if every name in every outline's
\* extract_dependencies() is the name of a supplied outline; otherwise it fails
\* with the missing-dependency error naming such a name, and returns no graph.
C5_GraphWellFormed ==
    LET names == Range(input.nodes)
        deps == UNION {dependency_names(input.outlines[n]) : n \in names}
    IN  /\ graph.status = "ok" => deps \subseteq names
        /\ graph.status = "missing" =>
              /\ graph.dep \in deps \ names
              /\ graph.edges = <<>>
        /\ (graph.status # "none" /\ ~(deps \subseteq names)) =>
              graph.status = "missing"

C5_Witness ==
    /\ graph.status = "missing"
    /\ graph.dep = "c"
    /\ Len(input.nodes) = 2

\* C6 (as claimed): the targets of A's outgoing edges are the names of all the
\* Depends atoms anywhere in A's constraint trees, also under a Cmp.
C6_EdgesAreAllDependsAtoms ==
    graph.status = "ok" =>
        \A n \in Range(input.nodes) :
            EdgeTargets(n) =
                UNION {DependsAtoms(input.outlines[n].constraints[i]) :
                          i \in DOMAIN input.outlines[n].constraints}

----------------------------------------------------------------------------
(* Default propagation: SpecOutline::propagate_defaults *)

IsSome(val) == val.t \notin {"None", "Absent"}

Get(map, key) == IF key \in DOMAIN map THEN map[key] ELSE Absent
Insert(map, key, val) ==
    [x \in DOMAIN map \cup {key} |-> IF x = key THEN val ELSE map[x]]
Remove(map, key) == [x \in DOMAIN map \ {key} |-> map[x]]

\* petgraph::algo::toposort: the orders that put every node before its
\* successors; none when the graph has a cycle.
TopoOrders ==
    LET ns == Range(input.nodes)
        n == Cardinality(ns)
    IN  {s \in [1..n -> ns] :
            /\ Injective(s)
            /\ \A i, j \in 1..n : graph.edges[<<s[i], s[j]>>] > 0 => i < j}

\* The direct predecessor instead of the origin (the variant C8 is tested
\* against).
FirstSetter_direct(tracker, src_name, opt) == src_name

\* The error with its two values the other way round (the variant C7 is
\* tested against).
Conflict_swapped(dep, opt, reason, old_val, src_name, src_val, tracker) ==
    [kind |-> "conflict",
     package_name |-> dep,
     default_name |-> opt,
     first_setter |-> reason,
     first_value |-> src_val,
     conflict_setter |-> src_name,
     conflict_value |-> old_val]

\* The setter recorded for a value `src_name` passes on: the one tracked for
\* src_name's own value when that was inherited, else src_name itself.
FirstSetter(tracker, src_name, opt) ==
    IF <<src_name, opt>> \in DOMAIN tracker
    THEN tracker[<<src_name, opt>>] ELSE src_name

\* PropagateDefaultError::Conflict as the inner loop builds it.
Conflict(dep, opt, reason, old_val, src_name, src_val, tracker) ==
    [kind |-> "conflict",
     package_name |-> dep,
     default_name |-> opt,
     first_setter |-> reason,
     first_value |-> old_val,
     conflict_setter |-> FirstSetter(tracker, src_name, opt),
     conflict_value |-> src_val]

\* An insert that also overwrites a pin of the same name (the variant C11 is
\* tested against).
set_defaults_insert_overpin(g, dep, opt, val) ==
    [g EXCEPT !.defaults[dep] = Insert(@, opt, val),
              !.set_options[dep] =
                  IF opt \in DOMAIN @ THEN Insert(@, opt, val) ELSE @]

\* dep.set_defaults.insert(opt_name, Some(src_val)): nothing else of the node
\* is written.
set_defaults_insert(g, dep, opt, val) ==
    [g EXCEPT !.defaults[dep] = Insert(@, opt, val)]

\* A Cycle outcome after which a None default of the first node is gone (the
\* variant C12 is tested against).
CycleOutcome_touched(g) ==
    [g EXCEPT !.defaults =
        [n \in DOMAIN @ |->
            [o \in {x \in DOMAIN @[n] : @[n][x] # NoneVal} |-> @[n][o]]]]

\* The graph toposort's failure leaves: the error is returned before the loop.
CycleOutcome(g) == g

\* toposort fails: Err(Cycle), before anything is touched.
PropagateCycle ==
    /\ graph.status = "ok"
    /\ pd.pc = "idle"
    /\ TopoOrders = {}
    /\ pd' = [pd EXCEPT !.pc = "done", !.result = [kind |-> "cycle"]]
    /\ graph' = CycleOutcome(graph)
    /\ UNCHANGED <<sv, input, last>>

\* The loop heads: a dependency whose options are all handled gives way to the
\* next dependency, a source whose dependencies are all handled to the next
\* source.
LoopHead(p) ==
    LET q == IF p.pc = "opt" /\ p.opts = {} THEN [p EXCEPT !.pc = "dep"] ELSE p
    IN  IF q.pc = "dep" /\ (\A dep \in DOMAIN q.deps : q.deps[dep] = 0)
        THEN [q EXCEPT !.pc = "src", !.src = "", !.src_defaults = <<>>,
                       !.deps = <<>>, !.dep = "", !.opts = {}]
        ELSE q

\* toposort succeeds; reason_tracker starts empty. The order toposort returns
\* is drawn one node at a time, in NextSrc.
PropagateStart ==
    /\ graph.status = "ok"
    /\ pd.pc = "idle"
    /\ TopoOrders # {}
    /\ pd' = [pd EXCEPT !.pc = "src", !.visited = {}, !.reason_tracker = <<>>]
    /\ UNCHANGED <<sv, input, graph, last>>

\* The nodes that can come next in `sorted`: every predecessor came before.
Ready ==
    {n \in Range(input.nodes) \ pd.visited :
        \A m \in Range(input.nodes) :
            graph.edges[<<m, n>>] > 0 => m \in pd.visited}

\* `for idx in sorted`: clone the source's set_defaults, collect its out-edges.
NextSrc ==
    /\ pd.pc = "src"
    /\ \E src \in Ready :
          pd' = LoopHead([pd EXCEPT
                    !.pc = "dep", !.visited = @ \cup {src},
                    !.src = src,
                    !.src_defaults = graph.defaults[src],
                    !.deps = [m \in Range(input.nodes) |->
                                 graph.edges[<<src, m>>]]])
    /\ UNCHANGED <<sv, input, graph, last>>

\* `for dep in deps`: one visit per edge, parallel edges included.
NextDep ==
    /\ pd.pc = "dep"
    /\ \E dep \in DOMAIN pd.deps :
          /\ pd.deps[dep] > 0
          /\ pd' = LoopHead([pd EXCEPT !.pc = "opt", !.dep = dep,
                                       !.deps[dep] = @ - 1,
                                       !.opts = DOMAIN pd.src_defaults])
    /\ UNCHANGED <<sv, input, graph, last>>

Handled(opt) ==
    [src |-> pd.src, dep |-> pd.dep, opt |-> opt,
     src_val |-> pd.src_defaults[opt],
     old |-> Get(graph.defaults[pd.dep], opt),
     tracked |-> <<pd.dep, opt>> \in DOMAIN pd.reason_tracker]

\* src_val is None: warn and continue.
StepSrcNone ==
    /\ pd.pc = "opt"
    /\ \E opt \in pd.opts :
          /\ pd.src_defaults[opt] = NoneVal
          /\ pd' = LoopHead([pd EXCEPT !.opts = @ \ {opt}])
          /\ last' = Handled(opt)
    /\ UNCHANGED <<sv, input, graph>>

\* The dependency has no entry: insert the value and track its first setter.
StepInsert ==
    /\ pd.pc = "opt"
    /\ \E opt \in pd.opts :
          /\ IsSome(pd.src_defaults[opt])
          /\ opt \notin DOMAIN graph.defaults[pd.dep]
          /\ graph' = set_defaults_insert(graph, pd.dep, opt,
                                          pd.src_defaults[opt])
          /\ pd' = LoopHead([pd EXCEPT
                !.opts = @ \ {opt},
                !.reason_tracker =
                    Insert(@, <<pd.dep, opt>>,
                           FirstSetter(pd.reason_tracker, pd.src, opt))])
          /\ last' = Handled(opt)
    /\ UNCHANGED <<sv, input>>

\* The dependency's entry is None: remove the entry.
StepRemoveNone ==
    /\ pd.pc = "opt"
    /\ \E opt \in pd.opts :
          /\ IsSome(pd.src_defaults[opt])
          /\ Get(graph.defaults[pd.dep], opt) = NoneVal
          /\ graph' = [graph EXCEPT !.defaults[pd.dep] = Remove(@, opt)]
          /\ pd' = LoopHead([pd EXCEPT !.opts = @ \ {opt}])
          /\ last' = Handled(opt)
    /\ UNCHANGED <<sv, input>>

\* The dependency has a value that is untracked, or equal: nothing happens.
StepKeep ==
    /\ pd.pc = "opt"
    /\ \E opt \in pd.opts :
          /\ IsSome(pd.src_defaults[opt])
          /\ IsSome(Get(graph.defaults[pd.dep], opt))
          /\ \/ <<pd.dep, opt>> \notin DOMAIN pd.reason_tracker
             \/ graph.defaults[pd.dep][opt] = pd.src_defaults[opt]
          /\ pd' = LoopHead([pd EXCEPT !.opts = @ \ {opt}])
          /\ last' = Handled(opt)
    /\ UNCHANGED <<sv, input, graph>>

\* The dependency has a tracked value that differs: return Err(Conflict).
StepConflict ==
    /\ pd.pc = "opt"
    /\ \E opt \in pd.opts :
          /\ IsSome(pd.src_defaults[opt])
          /\ IsSome(Get(graph.defaults[pd.dep], opt))
          /\ <<pd.dep, opt>> \in DOMAIN pd.reason_tracker
          /\ graph.defaults[pd.dep][opt] # pd.src_defaults[opt]
          /\ pd' = [pd EXCEPT
                !.pc = "done",
                !.result = Conflict(pd.dep, opt,
                                    pd.reason_tracker[<<pd.dep, opt>>],
                                    graph.defaults[pd.dep][opt],
                                    pd.src, pd.src_defaults[opt],
                                    pd.reason_tracker)]
          /\ last' = Handled(opt)
    /\ UNCHANGED <<sv, input, graph>>

\* The loop over `sorted` ends: Ok(()).
PropagateOk ==
    /\ pd.pc = "src"
    /\ pd.visited = Range(input.nodes)
    /\ pd' = [pd EXCEPT !.pc = "done", !.result = [kind |-> "ok"]]
    /\ UNCHANGED <<sv, input, graph, last>>

\* A second call of propagate_defaults on the graph the first call left.
SecondRun ==
    /\ pd.pc = "done"
    /\ pd.run = 1
    /\ pd.result.kind = "ok"
    /\ pd' = PdIdle(2, graph.defaults)
    /\ last' = NoLast
    /\ UNCHANGED <<sv, input, graph>>

----------------------------------------------------------------------------
(* The propagation specification: graphs over a, b, c, d with one option *)

PropNodes == <<"a", "b", "c", "d">>

DefVals == {NoneVal} \cup {IntVal(i) : i \in 1..MaxVal}
DefaultMaps == UNION {[S -> DefVals] : S \in SUBSET Opts}

\* The Depends lists: the diamond's edges, a parallel edge a -> b, and an edge
\* d -> a that closes a cycle.
PropConstraints ==
    [a |-> { <<>>, <<Depends("b")>>, <<Depends("b"), Depends("b")>>,
             <<Depends("b"), Depends("c")>> },
     b |-> { <<>>, <<Depends("d")>> },
     c |-> { <<>>, <<Depends("d")>> },
     d |-> { <<>>, <<Depends("a")>> }]

PropShapes ==
    {cs \in [Range(PropNodes) -> UNION Range(PropConstraints)] :
        \A n \in Range(PropNodes) : cs[n] \in PropConstraints[n]}

\* The pins: d pins the option the defaults are about.
PropOptions ==
    [n \in Range(PropNodes) |->
        IF n = "d" THEN [o \in Opts |-> IntVal(1)] ELSE <<>>]

PropInputs ==
    {[nodes |-> PropNodes,
      outlines |-> [n \in Range(PropNodes) |->
                       PackageOutline(cs[n], PropOptions[n], sd[n])],
      required |-> <<>>] :
        cs \in PropShapes, sd \in [Range(PropNodes) -> DefaultMaps]}

PropInit ==
    /\ input \in PropInputs
    /\ graph = SpecOutline_new(input.nodes, input.outlines, "")
    /\ pd = IdlePd
    /\ last = NoLast
    /\ sv = NoSolver

PropNext ==
    \/ PropagateCycle
    \/ PropagateStart
    \/ NextSrc
    \/ NextDep
    \/ StepSrcNone
    \/ StepInsert
    \/ StepRemoveNone
    \/ StepKeep
    \/ StepConflict
    \/ PropagateOk
    \/ SecondRun

SpecProp == PropInit /\ [][PropNext]_vars

----------------------------------------------------------------------------
(* Claims about default propagation *)

PassedOntoDifferent ==
    /\ last.src # ""
    /\ IsSome(last.src_val)
    /\ IsSome(last.old)
    /\ last.old # last.src_val

ConflictReported ==
    /\ pd.result.kind = "conflict"
    /\ pd.result.package_name = last.dep
    /\ pd.result.default_name = last.opt
    /\ pd.result.first_value = last.old
    /\ pd.result.conflict_value = last.src_val

\* C7 (as claimed): whenever P passes Some(v) to a successor D that has a
\* default v' # v, propagation fails with DefaultConflict for D and the option,
\* first_value = v' and conflict_value = v, whatever default D had.
C7_ConflictForAnyExisting == PassedOntoDifferent => ConflictReported

\* C7 (amended): the conflict is reported when D's default v' was installed by
\* this propagation run; a default D declared itself is kept, without an error.
C7_ConflictForInherited ==
    PassedOntoDifferent =>
        /\ last.tracked =>
              /\ ConflictReported
              /\ pd.result.first_setter \in Range(input.nodes) \ {last.dep}
        /\ ~last.tracked =>
              /\ pd.result.kind # "conflict"
              /\ Get(graph.defaults[last.dep], last.opt) = last.old

C7_Witness ==
    /\ PassedOntoDifferent
    /\ last.tracked
    /\ pd.result.kind = "conflict"
    /\ pd.result.first_value = IntVal(1)
    /\ pd.result.conflict_value = IntVal(2)

\* Scenario S4: a -> b, a -> c, b -> d, c -> d; a defaults opt = 1, c declares
\* opt = 2 and b passes opt = 1, declared by b or inherited from a.
IsS4 ==
    /\ input.outlines["a"].constraints = <<Depends("b"), Depends("c")>>
    /\ input.outlines["b"].constraints = <<Depends("d")>>
    /\ input.outlines["c"].constraints = <<Depends("d")>>
    /\ input.outlines["d"].constraints = <<>>
    /\ input.outlines["a"].set_defaults = [o \in {"opt"} |-> IntVal(1)]
    /\ input.outlines["b"].set_defaults \in {<<>>, [o \in {"opt"} |-> IntVal(1)]}
    /\ input.outlines["c"].set_defaults = [o \in {"opt"} |-> IntVal(2)]
    /\ input.outlines["d"].set_defaults = <<>>

\* C8 (as claimed): S4 fails with DefaultConflict{package = d, option = opt,
\* first_value = 1, conflict_value = 2}, the setters being b and c.
C8_S4AsClaimed ==
    (IsS4 /\ pd.pc = "done") =>
        pd.result = [kind |-> "conflict", package_name |-> "d",
                     default_name |-> "opt",
                     first_setter |-> "b", first_value |-> IntVal(1),
                     conflict_setter |-> "c", conflict_value |-> IntVal(2)]

SetterOf(val) ==
    IF pd.result.first_value = val
    THEN pd.result.first_setter ELSE pd.result.conflict_setter

\* C8 (amended): S4 fails with DefaultConflict for d and opt; first_value is
\* the value of whichever of b and c came first in the topological order (1 and
\* 2 when b did, 2 and 1 when c did); the setter reported for 2 is c, and the
\* setter reported for 1 is b when b declares opt = 1 and a when b inherited it.
C8_S4Amended ==
    (IsS4 /\ pd.pc = "done") =>
        /\ pd.result.kind = "conflict"
        /\ pd.result.package_name = "d"
        /\ pd.result.default_name = "opt"
        /\ last.src \in {"b", "c"}
        /\ last.src = "c" =>
              /\ pd.result.first_value = IntVal(1)
              /\ pd.result.conflict_value = IntVal(2)
        /\ last.src = "b" =>
              /\ pd.result.first_value = IntVal(2)
              /\ pd.result.conflict_value = IntVal(1)
        /\ SetterOf(IntVal(2)) = "c"
        /\ SetterOf(IntVal(1)) =
              IF "opt" \in DOMAIN input.outlines["b"].set_defaults
              THEN "b" ELSE "a"

C8_Witness ==
    /\ IsS4
    /\ pd.pc = "done"
    /\ pd.result.kind = "conflict"
    /\ pd.result.first_setter = "a"
    /\ pd.result.conflict_setter = "c"

\* C9 (as claimed): a second propagate_defaults succeeds and leaves every
\* package's set_defaults as the first call left them.
C9_Idempotent ==
    (pd.run = 2 /\ pd.pc = "done") =>
        /\ pd.result.kind = "ok"
        /\ graph.defaults = pd.after1

\* C10 (as claimed): after a successful propagate_defaults no package's
\* set_defaults maps an option to None.
C10_NoNoneAfterPropagation ==
    (pd.pc = "done" /\ pd.result.kind = "ok") =>
        \A n \in Range(input.nodes) :
            \A o \in DOMAIN graph.defaults[n] :
                graph.defaults[n][o] # NoneVal

\* C11: in every outcome of propagate_defaults (and at every point of its
\* run) each package's set_options and constraints and the graph's edges are
\* what new() built from the outlines; only set_defaults maps change.
C11_OnlyDefaultsChange ==
    graph.status = "ok" =>
        /\ graph.set_options =
              [n \in Range(input.nodes) |-> input.outlines[n].set_options]
        /\ graph.constraints =
              [n \in Range(input.nodes) |-> input.outlines[n].constraints]
        /\ graph.edges = Edges(input.nodes, input.outlines)
        /\ DOMAIN graph.defaults = Range(input.nodes)

\* A finished run that gave d the default 2 for the option d pins to 1.
C11_Witness ==
    /\ pd.pc = "done"
    /\ pd.result.kind = "ok"
    /\ "opt" \notin DOMAIN input.outlines["d"].set_defaults
    /\ Get(graph.defaults["d"], "opt") = IntVal(2)
    /\ Get(graph.set_options["d"], "opt") = IntVal(1)

\* The nodes reachable from a set of nodes along edges.
RECURSIVE Reach(_)
Reach(S) ==
    LET T == S \cup UNION {EdgeTargets(n) : n \in S}
    IN  IF T = S THEN S ELSE Reach(T)

HasCycle == \E n \in Range(input.nodes) : n \in Reach(EdgeTargets(n))

\* C12: new() accepts a cyclic graph; propagate_defaults on it never enters
\* its loop and ends with the Cycle error, every set_defaults as it was.
C12_CycleFailsUntouched ==
    HasCycle =>
        /\ graph.status = "ok"
        /\ pd.pc \in {"idle", "done"}
        /\ pd.pc = "done" => pd.result.kind = "cycle"
        /\ graph.defaults =
              [n \in Range(input.nodes) |-> input.outlines[n].set_defaults]

\* The Cycle error on the cycle a -> b -> d -> a, with a None default and a
\* value that an edge of the cycle would have passed on.
C12_Witness ==
    /\ HasCycle
    /\ pd.pc = "done"
    /\ pd.result.kind = "cycle"
    /\ Get(graph.defaults["a"], "opt") = IntVal(1)
    /\ Get(graph.defaults["b"], "opt") = NoneVal

----------------------------------------------------------------------------
(* gen_spec_solver: type checking *)

\* SpecOptionType, as far as this development goes.
OptionTypes == {"Bool", "Int", "Version"}

\* The key of an option in the registry; a package's toggle is its key with
\* no option name (the (name, None) entry).
NoOpt == ""
Toggle(p) == <<p, NoOpt>>

Ok(types) == [st |-> "ok", error |-> "", types |-> types]
Err(kind, types) == [st |-> "err", error |-> kind, types |-> types]
Panic(types) == [st |-> "panic", error |-> "", types |-> types]

\* ConstraintType: "None" for an unknown type, the option type for a
\* ConstraintType::Value, the constraint's kind otherwise.
get_type(c, types) ==
    CASE c.k = "SpecOption" ->
            IF <<c.package_name, c.option_name>> \in DOMAIN types
            THEN types[<<c.package_name, c.option_name>>] ELSE "None"
      [] c.k = "Value" -> to_type(c.value)
      [] c.k = "NumOf" -> "Int"
      [] OTHER -> c.k

\* Registry::insert_option: a second type for a known option panics.
insert_option(types, key, dtype) ==
    IF key \in DOMAIN types /\ types[key] # dtype
    THEN Panic(types)
    ELSE Ok([k \in DOMAIN types \cup {key} |->
                IF k = key THEN dtype ELSE types[k]])

RECURSIVE set_type(_, _, _)
set_type(c, types, t) ==
    CASE c.k = "SpecOption" ->
            IF t \notin OptionTypes THEN Panic(types)
            ELSE insert_option(types, <<c.package_name, c.option_name>>, t)
      [] c.k = "Cmp" ->
            LET r1 == set_type(c.lhs, types, t)
            IN  IF r1.st # "ok" THEN r1 ELSE set_type(c.rhs, r1.types, t)
      [] c.k \in {"Maximize", "Minimize"} -> set_type(c.item, types, t)
      [] OTHER -> Ok(types)

\* CmpType::can_compare
can_compare(op, t) ==
    IF op \in {"<", "<=", ">=", ">"}
    THEN t \in {"Int", "Float", "Str", "Version"}
    ELSE t \notin {"Maximize", "Minimize"}

RECURSIVE type_check_seq(_, _)
RECURSIVE type_check(_, _)
type_check(c, types) ==
    CASE c.k = "Cmp" ->
            LET lt == get_type(c.lhs, types)
                rt == get_type(c.rhs, types)
                r0 == IF lt = "None" /\ rt = "None" THEN Ok(types)
                      ELSE IF lt = "None" THEN set_type(c.lhs, types, rt)
                      ELSE IF rt = "None" THEN set_type(c.rhs, types, lt)
                      ELSE IF lt # rt
                           THEN Err("IncorrectConstraintType", types)
                           ELSE Ok(types)
                r1 == IF r0.st # "ok" THEN r0 ELSE type_check(c.lhs, r0.types)
                r2 == IF r1.st # "ok" THEN r1 ELSE type_check(c.rhs, r1.types)
                lt2 == get_type(c.lhs, r2.types)
            IN  IF r2.st # "ok" \/ lt2 = "None" \/ can_compare(c.op, lt2)
                THEN r2
                ELSE Err("InvalidConstraint", r2.types)
      [] c.k = "IfThen" ->
            LET ct == get_type(c.cond, types)
            IN  IF ct = "None" THEN set_type(c.cond, types, "Bool")
                ELSE IF ct \in {"Depends", "Cmp", "Bool"} THEN Ok(types)
                ELSE Err("InvalidConstraint", types)
      [] c.k = "NumOf" -> type_check_seq(c.of, types)
      [] c.k \in {"Maximize", "Minimize"} ->
            LET r1 == type_check(c.item, types)
                it == get_type(c.item, r1.types)
            IN  IF r1.st # "ok" THEN r1
                ELSE IF it \in OptionTypes \cup {"None"} THEN r1
                ELSE Err("IncorrectConstraintType", r1.types)
      [] OTHER -> Ok(types)

\* try_for_each over a list of constraints: the first failure ends the walk.
type_check_seq(cs, types) ==
    IF cs = <<>> THEN Ok(types)
    ELSE LET r == type_check(Head(cs), types)
         IN  IF r.st # "ok" THEN r ELSE type_check_seq(Tail(cs), r.types)

----------------------------------------------------------------------------
(* gen_spec_solver: variables and clauses *)

RECURSIVE extract_spec_options(_)
extract_spec_options(c) ==
    CASE c.k = "SpecOption" -> {<<c.package_name, c.option_name>>}
      [] c.k \in {"Cmp", "Equal"} ->
            extract_spec_options(c.lhs) \cup extract_spec_options(c.rhs)
      [] c.k = "IfThen" ->
            extract_spec_options(c.cond) \cup extract_spec_options(c.then)
      [] c.k = "NumOf" ->
            UNION {extract_spec_options(c.of[i]) : i \in DOMAIN c.of}
      [] c.k \in {"Maximize", "Minimize"} -> extract_spec_options(c.item)
      [] OTHER -> {}

\* The options the constraints of one outline mention.
OptionKeys(outline) ==
    UNION {extract_spec_options(outline.constraints[i]) :
              i \in DOMAIN outline.constraints}

\* The constraints of all packages, each with its package, in the order the
\* phases walk them: nodes by index, a node's constraints in list order.
RECURSIVE AllConstraints(_, _)
AllConstraints(nodes, outlines) ==
    IF nodes = <<>> THEN <<>>
    ELSE [i \in DOMAIN outlines[Head(nodes)].constraints |->
             [package |-> Head(nodes),
              constraint |-> outlines[Head(nodes)].constraints[i]]]
         \o AllConstraints(Tail(nodes), outlines)

\* SOFT_PACKAGE_WEIGHT
SOFT_PACKAGE_WEIGHT == 1

\* The soft assertions a run without the last package's `assert_soft` would
\* make (the variant C1 is tested against).
SoftToggles_butlast(nodes) ==
    [i \in 1..(Len(nodes) - 1) |->
        [lit |-> Toggle(nodes[i]), negated |-> TRUE,
         weight |-> SOFT_PACKAGE_WEIGHT]]

\* assert_soft(!toggle, SOFT_PACKAGE_WEIGHT), once per package.
SoftToggles(nodes) ==
    [i \in DOMAIN nodes |->
        [lit |-> Toggle(nodes[i]), negated |-> TRUE,
         weight |-> SOFT_PACKAGE_WEIGHT]]

Z3(sort) == [st |-> "ok", error |-> "", sort |-> sort]
Z3Err(kind) == [st |-> "err", error |-> kind, sort |-> ""]
Z3Panic == [st |-> "panic", error |-> "", sort |-> ""]

\* Constraint::Equal, which handle_explicit_options builds for a pin.
Equal(l, r) == [k |-> "Equal", lhs |-> l, rhs |-> r]

\* to_z3_clause: whether the translation returns, fails or panics, and the
\* sort of the term it returns.  `reg` is the built registry: the option
\* types and the solver variables.
RECURSIVE to_z3_clause(_, _)
to_z3_clause(c, reg) ==
    CASE c.k = "Depends" ->
            IF Toggle(c.on) \in DOMAIN reg.ast
            THEN Z3("Bool") ELSE Z3Err("MissingDependency")
      [] c.k = "SpecOption" ->
            LET key == <<c.package_name, c.option_name>>
            IN  IF key \notin DOMAIN reg.types
                THEN IF Toggle(c.package_name) \in DOMAIN reg.ast
                     THEN Z3Err("MissingVariable") ELSE Z3Err("MissingPackage")
                ELSE IF key \notin DOMAIN reg.ast THEN Z3Panic
                ELSE Z3(reg.ast[key])
      [] c.k = "Value" -> Z3(to_type(c.value))
      [] c.k \in {"Cmp", "Equal"} ->
            LET l == to_z3_clause(c.lhs, reg)
                r == to_z3_clause(c.rhs, reg)
            IN  IF l.st # "ok" THEN l
                ELSE IF r.st # "ok" THEN r
                ELSE IF l.sort # r.sort THEN Z3Panic
                ELSE IF c.k = "Cmp" /\ c.op \in {"<", "<=", ">=", ">"}
                        /\ l.sort = "Bool"
                     THEN Z3Panic
                     ELSE Z3("Bool")
      [] c.k = "IfThen" ->
            LET cond == to_z3_clause(c.cond, reg)
                then == to_z3_clause(c.then, reg)
            IN  IF cond.st # "ok" THEN cond
                ELSE IF cond.sort # "Bool" THEN Z3Panic
                ELSE IF then.st # "ok" THEN then
                ELSE IF then.sort # "Bool" THEN Z3Err("IncorrectSolverType")
                ELSE Z3("Bool")
      [] c.k = "NumOf" ->
            LET res == [i \in DOMAIN c.of |-> to_z3_clause(c.of[i], reg)]
                bad == {i \in DOMAIN c.of :
                           res[i].st # "ok" \/ res[i].sort # "Bool"}
                first == CHOOSE i \in bad : \A j \in bad : i <= j
            IN  IF bad = {} THEN Z3("Int")
                ELSE IF res[first].st = "ok" THEN Z3Panic ELSE res[first]
      [] OTHER -> Z3Err("InvalidConstraint")

RECURSIVE Sum(_)
Sum(s) == IF s = <<>> THEN 0 ELSE Head(s) + Sum(Tail(s))

Bit(b) == IF b THEN 1 ELSE 0

\* The value of a translated term under an assignment of the solver
\* variables; a Bool is 0 or 1.
RECURSIVE Eval(_, _)
Eval(c, asg) ==
    CASE c.k = "Depends" -> asg[Toggle(c.on)]
      [] c.k = "SpecOption" -> asg[<<c.package_name, c.option_name>>]
      [] c.k = "Value" -> c.value.v
      [] c.k = "Equal" -> Bit(Eval(c.lhs, asg) = Eval(c.rhs, asg))
      [] c.k = "Cmp" ->
            LET l == Eval(c.lhs, asg)
                r == Eval(c.rhs, asg)
            IN  (CASE c.op = "<" -> Bit(l < r)
                   [] c.op = "<=" -> Bit(l <= r)
                   [] c.op = "!=" -> Bit(l # r)
                   [] c.op = "==" -> Bit(l = r)
                   [] c.op = ">=" -> Bit(l >= r)
                   [] c.op = ">" -> Bit(l > r))
      [] c.k = "IfThen" ->
            Bit(Eval(c.cond, asg) = 1 => Eval(c.then, asg) = 1)
      [] c.k = "NumOf" -> Sum([i \in DOMAIN c.of |-> Eval(c.of[i], asg)])

\* A tracked hard assertion: `guard => body` under `label`; a guard of NoOpt
\* is no guard.
Tracked(label, guard, body) == [label |-> label, guard |-> guard, body |-> body]

Holds(h, asg) ==
    \/ h.guard # NoOpt /\ asg[Toggle(h.guard)] = 0
    \/ Eval(h.body, asg) = 1

----------------------------------------------------------------------------
(* gen_spec_solver: the phases *)

\* The optimizer and the registry before the first phase.
SolverStart ==
    [pc |-> "start", types |-> <<>>, ast |-> <<>>, soft |-> <<>>, hard |-> {},
     error |-> "", plan |-> <<>>, core |-> {}, descriptions |-> <<>>]

Fail(s, res) == [s EXCEPT !.pc = res.st, !.error = res.error]

\* SpecOutline::type_check
SolveTypeCheck ==
    /\ sv.pc = "start"
    /\ LET cs == AllConstraints(input.nodes, input.outlines)
           res == type_check_seq([i \in DOMAIN cs |-> cs[i].constraint], sv.types)
       IN  sv' = IF res.st = "ok"
                 THEN [sv EXCEPT !.pc = "typed", !.types = res.types]
                 ELSE [Fail(sv, res) EXCEPT !.types = res.types]
    /\ UNCHANGED <<input, graph, pd, last>>

\* create_tracking_variables: a toggle and a soft assertion per package, a
\* variable per option its constraints mention; SpecOption::to_z3_dynamic
\* panics on an option without a type.
CreateTrackingVariables ==
    /\ sv.pc = "typed"
    /\ LET names == Range(input.nodes)
           keys == UNION {OptionKeys(input.outlines[n]) : n \in names}
           toggles == {Toggle(n) : n \in names}
       IN  sv' = IF keys \subseteq DOMAIN sv.types
                 THEN [sv EXCEPT
                          !.pc = "vars",
                          !.soft = SoftToggles(input.nodes),
                          !.ast = [k \in toggles \cup keys |->
                                      IF k \in toggles THEN "Bool"
                                      ELSE sv.types[k]]]
                 ELSE Fail(sv, Z3Panic)
    /\ UNCHANGED <<input, graph, pd, last>>

\* WipRegistry::build
RegistryBuild ==
    /\ sv.pc = "vars"
    /\ sv' = [sv EXCEPT !.pc = "built"]
    /\ UNCHANGED <<input, graph, pd, last>>

\* The pins of all packages.
Pins(nodes, outlines) ==
    UNION {{[package |-> n, name |-> o, value |-> outlines[n].set_options[o]] :
               o \in DOMAIN outlines[n].set_options} : n \in Range(nodes)}

\* The Equal constraint handle_explicit_options builds for a pin.
PinEqual(pin) == Equal(SpecOption(pin.package, pin.name), Value(pin.value))

PinLabel(value) == [kind |-> "value", value |-> value]
RequiredLabel(r) == [kind |-> "required", dep |-> r]
ConstraintLabel(c) == [kind |-> "constraint", constraint |-> c]

\* A handle_explicit_options that tracks nothing (the variant C3 is tested
\* against).
PinAssertions_none(nodes, outlines) == {}

\* assert_and_track(toggle(P) => var == lit(v), "{value:?}"), once per pin.
PinAssertions(nodes, outlines) ==
    {Tracked(PinLabel(pin.value), pin.package, PinEqual(pin)) :
        pin \in Pins(nodes, outlines)}

\* handle_explicit_options: the translation of each pin is unwrapped, so a
\* pin whose Equal does not translate panics.
HandleExplicitOptions ==
    /\ sv.pc = "built"
    /\ sv' = IF \A pin \in Pins(input.nodes, input.outlines) :
                    to_z3_clause(PinEqual(pin), sv).st = "ok"
             THEN [sv EXCEPT
                      !.pc = "pinned",
                      !.hard = @ \cup PinAssertions(input.nodes, input.outlines)]
             ELSE Fail(sv, Z3Panic)
    /\ UNCHANGED <<input, graph, pd, last>>

\* A require_packages that tracks nothing (the variant C2 is tested against).
RequireAssertions_none(required) == {}

\* assert_and_track(toggle(R), "'R' required explicitly"), once per entry.
RequireAssertions(required) ==
    {Tracked(RequiredLabel(required[i]), NoOpt, Depends(required[i])) :
        i \in DOMAIN required}

\* A require_packages that runs ahead of handle_explicit_options (the
\* variant C29 is tested against).
RequirePackages_first ==
    /\ sv.pc = "built"
    /\ LET bad == {i \in DOMAIN input.required :
                      Toggle(input.required[i]) \notin DOMAIN sv.ast}
       IN  sv' = IF bad = {}
                 THEN [sv EXCEPT
                          !.pc = "required",
                          !.hard = @ \cup RequireAssertions(input.required)]
                 ELSE Fail(sv, Z3Err("MissingDependency"))
    /\ UNCHANGED <<input, graph, pd, last>>

\* require_packages: the first required name without a toggle is the error.
RequirePackages ==
    /\ sv.pc = "pinned"
    /\ LET bad == {i \in DOMAIN input.required :
                      Toggle(input.required[i]) \notin DOMAIN sv.ast}
       IN  sv' = IF bad = {}
                 THEN [sv EXCEPT
                          !.pc = "required",
                          !.hard = @ \cup RequireAssertions(input.required)]
                 ELSE Fail(sv, Z3Err("MissingDependency"))
    /\ UNCHANGED <<input, graph, pd, last>>

\* An add_constraints that asserts each clause without its package's toggle
\* (the variant C4 is tested against).
ConstraintAssertions_unguarded(cs) ==
    {Tracked(ConstraintLabel(cs[i].constraint), NoOpt, cs[i].constraint) :
        i \in DOMAIN cs}

\* assert_and_track(toggle(P) => clause, "{constraint:?}"), once per
\* constraint.
ConstraintAssertions(cs) ==
    {Tracked(ConstraintLabel(cs[i].constraint), cs[i].package,
             cs[i].constraint) : i \in DOMAIN cs}

\* What add_constraints makes of one constraint: its translation, which must
\* be of sort Bool.
AddConstraint(c, reg) ==
    LET res == to_z3_clause(c, reg)
    IN  IF res.st = "ok" /\ res.sort # "Bool"
        THEN Z3Err("IncorrectZ3Type") ELSE res

\* add_constraints: the first constraint that does not translate ends the
\* phase with its error or panic.
AddConstraints ==
    /\ sv.pc = "required"
    /\ LET cs == AllConstraints(input.nodes, input.outlines)
           bad == {i \in DOMAIN cs : AddConstraint(cs[i].constraint, sv).st # "ok"}
           first == CHOOSE i \in bad : \A j \in bad : i <= j
       IN  sv' = IF bad = {}
                 THEN [sv EXCEPT
                          !.pc = "generated",
                          !.hard = @ \cup ConstraintAssertions(cs)]
                 ELSE Fail(sv, AddConstraint(cs[first].constraint, sv))
    /\ UNCHANGED <<input, graph, pd, last>>

----------------------------------------------------------------------------
(* The optimizer *)

\* The values a solver variable of a sort ranges over; an Int is cut to
\* 0..MaxVal.
Assignments(ast) ==
    {asg \in [DOMAIN ast -> 0..MaxVal] :
        \A key \in DOMAIN ast : ast[key] = "Bool" => asg[key] \in {0, 1}}

\* The assignments that satisfy every hard assertion.
Models(s) == {asg \in Assignments(s.ast) : \A h \in s.hard : Holds(h, asg)}

\* The weight of the soft assertions an assignment breaks.
Penalty(soft, asg) ==
    Sum([i \in DOMAIN soft |->
            IF (asg[soft[i].lit] = 1) = soft[i].negated
            THEN soft[i].weight ELSE 0])

\* Optimize::check followed by get_model: a model of the hard assertions of
\* least penalty.
Optimal(s) ==
    {asg \in Models(s) :
        \A other \in Models(s) : Penalty(s.soft, asg) <= Penalty(s.soft, other)}

CheckSat ==
    /\ sv.pc = "generated"
    /\ \E plan \in Optimal(sv) : sv' = [sv EXCEPT !.pc = "sat", !.plan = plan]
    /\ UNCHANGED <<input, graph, pd, last>>

\* The label sets get_unsat_core may return: the labels of tracked assertions
\* that no assignment satisfies together.
UnsatCores(s) ==
    {core \in SUBSET {h.label : h \in s.hard} :
        \A asg \in Assignments(s.ast) :
            \E h \in s.hard : h.label \in core /\ ~Holds(h, asg)}

\* Registry::constraint_description: the description registered under a label,
\* if any.
constraint_description(s, label) ==
    IF label \in DOMAIN s.descriptions
    THEN [found |-> TRUE, description |-> s.descriptions[label]]
    ELSE [found |-> FALSE, description |-> label]

CheckUnsat ==
    /\ sv.pc = "generated"
    /\ Models(sv) = {}
    /\ \E core \in UnsatCores(sv) : sv' = [sv EXCEPT !.pc = "unsat", !.core = core]
    /\ UNCHANGED <<input, graph, pd, last>>

----------------------------------------------------------------------------
(* The solves explored *)

SolveNodes == <<"a", "b", "c">>

X == SpecOption("a", "x")
N == SpecOption("b", "n")
Y == SpecOption("a", "y")

\* Scenario S3 with a for mpi, b for openmpi, c for mpich, x for ompi and y for
\* the option mpich: NumOf([IfThen(x, Depends(b)), IfThen(y, Depends(c))]) = 1.
S3Constraint ==
    Cmp(NumOf(<<IfThen(X, Depends("b")), IfThen(Y, Depends("c"))>>),
        Value(IntVal(1)), "==")

\* The constraint lists a package may declare.
SolveConstraints ==
    [a |-> {<<>>,
            <<Depends("b")>>,
            <<Cmp(NumOf(<<Depends("b"), Depends("c")>>), Value(IntVal(1)), "==")>>,
            <<IfThen(X, Depends("b"))>>,
            <<Cmp(X, Value(BoolVal(TRUE)), "=="), IfThen(X, Depends("c"))>>,
            <<Cmp(N, Value(IntVal(1)), ">=")>>,
            <<Cmp(N, Value(IntVal(1)), ">="), Cmp(N, Value(BoolVal(TRUE)), "==")>>,
            <<IfThen(Cmp(X, Value(BoolVal(TRUE)), "=="), Depends("b"))>>,
            <<Maximize(N), Cmp(N, Value(IntVal(1)), ">=")>>,
            <<NumOf(<<Depends("b")>>)>>,
            <<IfThen(Depends("b"), Value(IntVal(1)))>>,
            <<Cmp(NumOf(<<Value(IntVal(1))>>), Value(IntVal(1)), "==")>>,
            <<Cmp(X, Depends("b"), "==")>>,
            <<S3Constraint>>},
     b |-> {<<>>,
            <<Depends("c")>>,
            <<Cmp(N, Value(IntVal(2)), "==")>>},
     c |-> {<<>>,
            <<Depends("a")>>}]

\* The pins a package may carry.
SolveOptions ==
    [a |-> {<<>>, [o \in {"x"} |-> BoolVal(TRUE)], [o \in {"x"} |-> BoolVal(FALSE)]},
     b |-> {<<>>, [o \in {"n"} |-> IntVal(1)], [o \in {"n"} |-> IntVal(2)]},
     c |-> {<<>>}]

SolveRequired == {<<>>, <<"a">>, <<"b">>, <<"a", "c">>, <<"d">>}

SolveInputs ==
    {[nodes |-> SolveNodes,
      outlines |-> [n \in Range(SolveNodes) |->
                       PackageOutline(cs[n], so[n], <<>>)],
      required |-> req] :
        cs \in {f \in [Range(SolveNodes) -> UNION Range(SolveConstraints)] :
                   \A n \in Range(SolveNodes) : f[n] \in SolveConstraints[n]},
        so \in {f \in [Range(SolveNodes) -> UNION Range(SolveOptions)] :
                   \A n \in Range(SolveNodes) : f[n] \in SolveOptions[n]},
        req \in SolveRequired}

SolveInit ==
    /\ input \in SolveInputs
    /\ graph = SpecOutline_new(input.nodes, input.outlines, "")
    /\ graph.status = "ok"
    /\ pd = IdlePd
    /\ last = NoLast
    /\ sv = SolverStart

SolveNext ==
    \/ SolveTypeCheck
    \/ CreateTrackingVariables
    \/ RegistryBuild
    \/ HandleExplicitOptions
    \/ RequirePackages
    \/ AddConstraints
    \/ CheckSat
    \/ CheckUnsat

SpecSolve == SolveInit /\ [][SolveNext]_vars

----------------------------------------------------------------------------
(* Claims about the generated problem and the plan *)

\* The number of packages an assignment activates.
Active(asg) == Cardinality({n \in Range(input.nodes) : asg[Toggle(n)] = 1})

VariablesCreated ==
    sv.pc \in {"vars", "built", "pinned", "required", "generated", "sat", "unsat"}
PinsHandled == sv.pc \in {"pinned", "required", "generated", "sat", "unsat"}
PackagesRequired == sv.pc \in {"required", "generated", "sat", "unsat"}
Generated == sv.pc \in {"generated", "sat", "unsat"}

\* C1: once the variables are created every package has one Bool toggle and
\* one soft assertion, of the toggle's negation at unit weight; and a returned
\* plan activates a minimum number of packages: no assignment that satisfies
\* all hard assertions has fewer true toggles.
C1_MinimalActivation ==
    /\ VariablesCreated =>
          \A n \in Range(input.nodes) :
              /\ Toggle(n) \in DOMAIN sv.ast
              /\ sv.ast[Toggle(n)] = "Bool"
              /\ \E i \in DOMAIN sv.soft :
                    /\ sv.soft[i] = [lit |-> Toggle(n), negated |-> TRUE,
                                     weight |-> 1]
                    /\ \A j \in DOMAIN sv.soft :
                          sv.soft[j].lit = Toggle(n) => j = i
    /\ sv.pc = "sat" =>
          \A asg \in Models(sv) : Active(sv.plan) <= Active(asg)

\* A plan that leaves the unused third package out although a model with all
\* three exists.
C1_Witness ==
    /\ sv.pc = "sat"
    /\ input.required = <<"a">>
    /\ input.outlines["a"].constraints = <<Depends("b")>>
    /\ Active(sv.plan) = 2
    /\ sv.plan[Toggle("c")] = 0
    /\ \E asg \in Models(sv) : Active(asg) = 3

\* C2: once require_packages has returned, the toggle of every required
\* package is a tracked hard assertion; every returned plan activates every
\* required package and, with an active package, every package it depends on
\* unconditionally.
C2_RequiredAndDependsActive ==
    /\ PackagesRequired =>
          \A i \in DOMAIN input.required :
              \E h \in sv.hard :
                  /\ h.label = RequiredLabel(input.required[i])
                  /\ h.guard = NoOpt
                  /\ h.body = Depends(input.required[i])
    /\ sv.pc = "sat" =>
          /\ \A i \in DOMAIN input.required :
                sv.plan[Toggle(input.required[i])] = 1
          /\ \A n \in Range(input.nodes) :
                \A i \in DOMAIN input.outlines[n].constraints :
                    LET c == input.outlines[n].constraints[i]
                    IN  (sv.plan[Toggle(n)] = 1 /\ c.k = "Depends")
                            => sv.plan[Toggle(c.on)] = 1

\* A required root whose chain of dependencies activates all three packages.
C2_Witness ==
    /\ sv.pc = "sat"
    /\ input.required = <<"a">>
    /\ input.outlines["a"].constraints = <<Depends("b")>>
    /\ input.outlines["b"].constraints = <<Depends("c")>>
    /\ \A n \in {"a", "b", "c"} : sv.plan[Toggle(n)] = 1

Flip(asg, key, val) == [asg EXCEPT ![key] = val]

\* The options of package p that have a solver variable.
OptionsOf(p) == {key \in DOMAIN sv.ast : key[1] = p /\ key[2] # NoOpt}

\* The options the constraints of packages other than p mention.
ForeignRefs(p) ==
    UNION {OptionKeys(input.outlines[q]) : q \in Range(input.nodes) \ {p}}

\* C4 (as claimed): in any model of the hard assertions in which P's toggle is
\* false, changing any single option of P, all else fixed, gives a model
\* again.
C4_DeactivatedImposeNothing ==
    Generated =>
        \A asg \in Models(sv) : \A p \in Range(input.nodes) :
            asg[Toggle(p)] = 0 =>
                \A key \in OptionsOf(p) : \A val \in 0..MaxVal :
                    Flip(asg, key, val) \in Assignments(sv.ast)
                        => Flip(asg, key, val) \in Models(sv)

\* C4 (amended): in any model of the hard assertions in which P's toggle is
\* false, changing any single option of P that no constraint of another
\* package mentions, all else fixed, gives a model again.
C4_DeactivatedOwnOptionsFree ==
    Generated =>
        \A asg \in Models(sv) : \A p \in Range(input.nodes) :
            asg[Toggle(p)] = 0 =>
                \A key \in OptionsOf(p) \ ForeignRefs(p) : \A val \in 0..MaxVal :
                    Flip(asg, key, val) \in Assignments(sv.ast)
                        => Flip(asg, key, val) \in Models(sv)

\* A plan with `b` inactive while b's own constraint and pin disagree on its
\* option, which then takes a value neither of them allows.
C4_Witness ==
    /\ sv.pc = "sat"
    /\ input.outlines["b"].constraints = <<Cmp(N, Value(IntVal(2)), "==")>>
    /\ input.outlines["b"].set_options = [o \in {"n"} |-> IntVal(1)]
    /\ sv.plan[Toggle("b")] = 0
    /\ sv.plan[<<"b", "n">>] = 0

----------------------------------------------------------------------------
(* Type checking in another order *)

\* The constraints whose types are inferred from one another.
TypePool ==
    {Cmp(X, Y, "=="),
     Cmp(Y, Value(IntVal(1)), "=="),
     Cmp(X, Value(IntVal(1)), ">="),
     IfThen(X, Depends("b")),
     Cmp(N, Value(IntVal(2)), "=="),
     Maximize(N)}

TypeNodes == <<"a", "b">>

TypeDecls ==
    UNION {[1..n -> (DOMAIN TypeNodes) \X TypePool] : n \in 0..MaxConstraints}

VisitOrders(S) ==
    {f \in [1..Cardinality(S) -> S] : \A i, j \in DOMAIN f : f[i] = f[j] => i = j}

TypesInit ==
    /\ \E decl \in TypeDecls : input = GraphInput(TypeNodes, decl)
    /\ graph = SpecOutline_new(input.nodes, input.outlines, "")
    /\ pd = IdlePd
    /\ last = NoLast
    /\ sv = [pc |-> "start", order |-> <<>>, types |-> <<>>, error |-> ""]

\* The walk of SpecOutline::type_check with the constraints visited in the
\* order `order`.
TypeCheckInOrder ==
    /\ sv.pc = "start"
    /\ LET cs == AllConstraints(input.nodes, input.outlines)
       IN  \E order \in VisitOrders(DOMAIN cs) :
              LET res == type_check_seq(
                             [i \in DOMAIN cs |-> cs[order[i]].constraint], <<>>)
              IN  sv' = [pc |-> res.st, order |-> order, types |-> res.types,
                         error |-> res.error]
    /\ UNCHANGED <<input, graph, pd, last>>

TypesNext == TypeCheckInOrder

SpecTypes == TypesInit /\ [][TypesNext]_vars

\* What the walk in the order of the lists records.
InListOrder ==
    LET cs == AllConstraints(input.nodes, input.outlines)
    IN  type_check_seq([i \in DOMAIN cs |-> cs[i].constraint], <<>>)

\* C13 (as claimed): whatever the order in which the constraints are visited,
\* type checking succeeds or fails alike and records the same type for every
\* option.
C13_TypeCheckConfluent ==
    sv.pc # "start" =>
        /\ (sv.pc = "ok") = (InListOrder.st = "ok")
        /\ sv.types = InListOrder.types

----------------------------------------------------------------------------
(* Claims about pins, untyped options and ill-typed operands *)

TypeChecked == sv.pc \in {"typed"} \/ VariablesCreated

\* C14 (as claimed): once type checking has succeeded, the type of every pinned
\* option (P, opt) is recorded as the type of its pinned value, whether or not
\* a constraint mentions it; and when handle_explicit_options starts, every
\* pinned option has a solver variable.
C14_PinsSeedTypes ==
    /\ TypeChecked =>
          \A pin \in Pins(input.nodes, input.outlines) :
              /\ <<pin.package, pin.name>> \in DOMAIN sv.types
              /\ sv.types[<<pin.package, pin.name>>] = to_type(pin.value)
    /\ sv.pc = "built" =>
          \A pin \in Pins(input.nodes, input.outlines) :
              <<pin.package, pin.name>> \in DOMAIN sv.ast

\* The options the constraints of all packages mention.
ReferencedOptions ==
    UNION {OptionKeys(input.outlines[n]) : n \in Range(input.nodes)}

\* C15 (as claimed): when type checking has gone through and some referenced
\* option has no type, the solve has failed with the error UnknownType; it is
\* not on its way to variable creation, nor has it panicked there.
C15_UntypedIsAnError ==
    (/\ sv.pc # "start"
     /\ InListOrder.st = "ok"
     /\ ~(ReferencedOptions \subseteq DOMAIN sv.types))
        => (sv.pc = "err" /\ sv.error = "UnknownType")

\* A constraint hands the solver an ill-typed operand: an ordering comparison
\* over Bool terms, an IfThen whose `then` is not a Bool term, or a NumOf with
\* a child that is not a Bool term, anywhere in its tree.
RECURSIVE IllTypedOperand(_, _)
IllTypedOperand(c, reg) ==
    CASE c.k = "Cmp" ->
            \/ /\ c.op \in {"<", "<=", ">=", ">"}
               /\ \E side \in {c.lhs, c.rhs} :
                     to_z3_clause(side, reg) = Z3("Bool")
            \/ IllTypedOperand(c.lhs, reg)
            \/ IllTypedOperand(c.rhs, reg)
      [] c.k = "IfThen" ->
            \/ LET then == to_z3_clause(c.then, reg)
               IN  then.st = "ok" /\ then.sort # "Bool"
            \/ IllTypedOperand(c.cond, reg)
            \/ IllTypedOperand(c.then, reg)
      [] c.k = "NumOf" ->
            \E i \in DOMAIN c.of :
                \/ LET child == to_z3_clause(c.of[i], reg)
                   IN  child.st = "ok" /\ child.sort # "Bool"
                \/ IllTypedOperand(c.of[i], reg)
      [] OTHER -> FALSE

\* C16 (as claimed): when type_check has succeeded for all constraints, no
\* constraint that clause generation translates holds an ill-typed operand.
C16_TypeSoundness ==
    sv.pc = "required" =>
        \A n \in Range(input.nodes) :
            \A i \in DOMAIN input.outlines[n].constraints :
                ~IllTypedOperand(input.outlines[n].constraints[i], sv)

----------------------------------------------------------------------------
(* Claims about the UNSAT core and particular solves *)

\* C17 (as claimed): every label in a returned UNSAT core is the label of
\* exactly one tracked assertion of the solve, and the registry's lookup of the
\* label returns the description of that assertion.
C17_UnsatFidelity ==
    sv.pc = "unsat" =>
        \A label \in sv.core :
            /\ Cardinality({h \in sv.hard : h.label = label}) = 1
            /\ constraint_description(sv, label).found
            /\ \E h \in sv.hard :
                  /\ h.label = label
                  /\ constraint_description(sv, label).description = h.label

\* C18 (as claimed): in scenario S3, with mpi required, every plan the solve
\* returns activates exactly one of openmpi and mpich.
C18_S3SelectsExactlyOne ==
    (/\ sv.pc = "sat"
     /\ input.outlines["a"].constraints = <<S3Constraint>>
     /\ input.outlines["b"].constraints = <<>>
     /\ input.outlines["c"].constraints = <<>>
     /\ input.required = <<"a">>)
    => sv.plan[Toggle("b")] + sv.plan[Toggle("c")] = 1

\* The constraints of a list that are not objectives.
WithoutObjectives(cs) ==
    SelectSeq(cs, LAMBDA e : e.constraint.k \notin {"Maximize", "Minimize"})

\* C19 (as claimed): a Maximize or Minimize constraint adds to the objective
\* only. When the outlines hold one and every other constraint translates,
\* add_constraints succeeds, and the hard assertions it leaves have the models
\* they would have with the objective constraints removed.
C19_ObjectivesOnly ==
    [][LET cs == AllConstraints(input.nodes, input.outlines)
           rest == WithoutObjectives(cs)
       IN  (/\ sv.pc = "required"
            /\ rest # cs
            /\ \A i \in DOMAIN rest :
                  AddConstraint(rest[i].constraint, sv).st = "ok")
           => /\ sv'.pc = "generated"
              /\ Models(sv') =
                    Models([sv' EXCEPT
                               !.hard = sv.hard \cup ConstraintAssertions(rest)])
      ]_vars

----------------------------------------------------------------------------
(* Versions: SemVer and its order *)

\* The largest major, minor and patch number explored.
MaxPart == 1

\* SemVer { major, minor, patch, rc, meta }; rc and meta are
\* Option<Vec<String>>: None, or Some of a list of identifiers.
NoneIdents == [some |-> FALSE, idents |-> <<>>]
SomeIdents(v) == [some |-> TRUE, idents |-> v]
SemVer(major, minor, patch, rc, meta) ==
    [major |-> major, minor |-> minor, patch |-> patch, rc |-> rc, meta |-> meta]

\* Ord for u32.
IntCmp(m, n) == IF m < n THEN "Less" ELSE IF m > n THEN "Greater" ELSE "Equal"

\* Ord for String: bytewise, a proper prefix is Less. A string is the
\* sequence of its bytes.
RECURSIVE StrCmp(_, _)
StrCmp(s, t) ==
    IF s = <<>> /\ t = <<>> THEN "Equal"
    ELSE IF s = <<>> THEN "Less"
    ELSE IF t = <<>> THEN "Greater"
    ELSE IF Head(s) # Head(t) THEN IntCmp(Head(s), Head(t))
    ELSE StrCmp(Tail(s), Tail(t))

\* PartialOrd for Vec<String>: elementwise, a proper prefix is Less.
RECURSIVE VecCmp(_, _)
VecCmp(v, w) ==
    IF v = <<>> /\ w = <<>> THEN "Equal"
    ELSE IF v = <<>> THEN "Less"
    ELSE IF w = <<>> THEN "Greater"
    ELSE IF StrCmp(Head(v), Head(w)) # "Equal" THEN StrCmp(Head(v), Head(w))
    ELSE VecCmp(Tail(v), Tail(w))

\* (major, minor, patch).cmp(...)
version_cmp(a, b) ==
    IF a.major # b.major THEN IntCmp(a.major, b.major)
    ELSE IF a.minor # b.minor THEN IntCmp(a.minor, b.minor)
    ELSE IntCmp(a.patch, b.patch)

\* SemVer::partial_cmp: the numbers first, then the pre-releases; a version
\* without a pre-release is the greater. `meta` is not looked at.
partial_cmp(a, b) ==
    IF version_cmp(a, b) # "Equal" THEN version_cmp(a, b)
    ELSE IF ~a.rc.some /\ ~b.rc.some THEN "Equal"
    ELSE IF ~a.rc.some THEN "Greater"
    ELSE IF ~b.rc.some THEN "Less"
    ELSE VecCmp(a.rc.idents, b.rc.idents)

\* #[derive(PartialEq)] on SemVer: all five fields are compared.
eq(a, b) ==
    /\ a.major = b.major
    /\ a.minor = b.minor
    /\ a.patch = b.patch
    /\ a.rc = b.rc
    /\ a.meta = b.meta

\* The operators <, > of PartialOrd.
lt(a, b) == partial_cmp(a, b) = "Less"
gt(a, b) == partial_cmp(a, b) = "Greater"

\* The identifiers "a", "ab" and "b" as bytes.
IdA == <<97>>
IdAB == <<97, 98>>
IdB == <<98>>

\* The versions compared.
PreReleases ==
    {NoneIdents, SomeIdents(<<IdA>>), SomeIdents(<<IdA, IdB>>),
     SomeIdents(<<IdAB>>), SomeIdents(<<IdB>>)}
Metadata == {NoneIdents, SomeIdents(<<IdA>>), SomeIdents(<<IdB>>)}
SemVers ==
    {SemVer(major, minor, 0, rc, meta) :
        major \in 0..MaxPart, minor \in 0..MaxPart,
        rc \in PreReleases, meta \in Metadata}

NoCmp == [pc |-> "none"]

VersionInit ==
    /\ \E a \in SemVers : \E b \in SemVers : input = [a |-> a, b |-> b]
    /\ graph = NoGraph
    /\ pd = IdlePd
    /\ last = NoLast
    /\ sv = NoCmp

\* a and b are compared with each other and with a third version c.
CompareVersions ==
    /\ sv.pc = "none"
    /\ \E c \in SemVers :
          sv' = [pc |-> "compared",
                 c |-> c,
                 lt |-> lt(input.a, input.b),
                 eq |-> eq(input.a, input.b),
                 gt |-> gt(input.a, input.b),
                 lt_bc |-> lt(input.b, c),
                 lt_ac |-> lt(input.a, c)]
    /\ UNCHANGED <<input, graph, pd, last>>

VersionNext == CompareVersions

SpecVersion == VersionInit /\ [][VersionNext]_vars

\* C20 (as claimed): for two versions a and b exactly one of a < b, a = b,
\* a > b holds, where a = b is equality of the values, and the order is
\* transitive: a < b and b < c give a < c.
C20_VersionOrderTotal ==
    sv.pc = "compared" =>
        /\ Cardinality({r \in {"lt", "eq", "gt"} : sv[r]}) = 1
        /\ (sv.lt /\ sv.lt_bc) => sv.lt_ac

----------------------------------------------------------------------------
(* Versions of the data model and their order *)

\* A version is a list of segments, each a value-part with the separator in
\* front of it ("" in front of the first). A string part is the sequence of
\* its bytes.
IntPart(n) == [t |-> "Int", n |-> n, s |-> <<>>]
StrPart(s) == [t |-> "Str", n |-> 0, s |-> s]
Segment(sep, part) == [sep |-> sep, part |-> part]

\* stable < latest < beta < alpha < master < main < devel < dev < git
ReservedStrings ==
    << <<115, 116, 97, 98, 108, 101>>, <<108, 97, 116, 101, 115, 116>>,
       <<98, 101, 116, 97>>, <<97, 108, 112, 104, 97>>,
       <<109, 97, 115, 116, 101, 114>>, <<109, 97, 105, 110>>,
       <<100, 101, 118, 101, 108>>, <<100, 101, 118>>, <<103, 105, 116>> >>

\* The place of a string in the reserved chain, 0 for an unreserved string.
ReservedRank(s) ==
    IF \E i \in DOMAIN ReservedStrings : ReservedStrings[i] = s
    THEN CHOOSE i \in DOMAIN ReservedStrings : ReservedStrings[i] = s
    ELSE 0

\* Rules 2 to 4: a Str part is below any Int part, Int parts compare by
\* number, reserved strings by their place in the chain and above all other
\* strings, other strings lexicographically.
PartCmp(p, q) ==
    IF p.t = "Int" /\ q.t = "Int" THEN IntCmp(p.n, q.n)
    ELSE IF p.t = "Str" /\ q.t = "Int" THEN "Less"
    ELSE IF p.t = "Int" /\ q.t = "Str" THEN "Greater"
    ELSE IF ReservedRank(p.s) # 0 \/ ReservedRank(q.s) # 0
         THEN IntCmp(ReservedRank(p.s), ReservedRank(q.s))
    ELSE StrCmp(p.s, q.s)

\* Rules 1 and 5: segments pairwise from the left, separators at matching
\* positions identical or the versions are incomparable; when one version is
\* a prefix of the other the shorter is the greater.
RECURSIVE VersionCmp(_, _)
VersionCmp(a, b) ==
    IF a = <<>> /\ b = <<>> THEN "Equal"
    ELSE IF a = <<>> THEN "Greater"
    ELSE IF b = <<>> THEN "Less"
    ELSE IF Head(a).sep # Head(b).sep THEN "Incomparable"
    ELSE IF PartCmp(Head(a).part, Head(b).part) # "Equal"
         THEN PartCmp(Head(a).part, Head(b).part)
    ELSE VersionCmp(Tail(a), Tail(b))

\* 1.2.3, 1.2.3-alpha, 1.2, 2.0 and 1.2.3-beta
V123 == <<Segment("", IntPart(1)), Segment(".", IntPart(2)), Segment(".", IntPart(3))>>
V123alpha == V123 \o <<Segment("-", StrPart(ReservedStrings[4]))>>
V12 == <<Segment("", IntPart(1)), Segment(".", IntPart(2))>>
V20 == <<Segment("", IntPart(2)), Segment(".", IntPart(0))>>
V123beta == V123 \o <<Segment("-", StrPart(ReservedStrings[3]))>>

----------------------------------------------------------------------------
(* The version registry *)

\* The largest number of versions pushed before build.
MaxPush == 4

\* Where a version goes in a sorted list: behind everything not greater.
RECURSIVE SortedInsert(_, _)
SortedInsert(sorted, v) ==
    IF sorted = <<>> THEN <<v>>
    ELSE IF VersionCmp(v, Head(sorted)) = "Less" THEN <<v>> \o sorted
    ELSE <<Head(sorted)>> \o SortedInsert(Tail(sorted), v)

\* A build that leaves the versions in the order they were pushed (the
\* variant C21 is tested against).
sort_none(versions) == versions

\* self.versions.sort()
RECURSIVE sort(_)
sort(versions) ==
    IF versions = <<>> THEN <<>>
    ELSE SortedInsert(sort(SubSeq(versions, 1, Len(versions) - 1)),
                      versions[Len(versions)])

\* WipVersionRegistry::build: every element of the sorted list gets its
\* position as index; `versions` keeps the last index inserted for a version,
\* `ids` keeps every index.
WipVersionRegistry_build(versions) ==
    LET sorted == sort(versions)
        last_of(v) == CHOOSE i \in DOMAIN sorted :
                         /\ sorted[i] = v
                         /\ \A j \in DOMAIN sorted : sorted[j] = v => j <= i
    IN  [pc |-> "built",
         versions |-> [v \in Range(sorted) |-> last_of(v) - 1],
         ids |-> [i \in 0..(Len(sorted) - 1) |-> sorted[i + 1]]]

\* BuiltVersionRegistry::lookup
lookup(reg, ver) ==
    IF ver \in DOMAIN reg.versions
    THEN [some |-> TRUE, id |-> reg.versions[ver]]
    ELSE [some |-> FALSE, id |-> 0]

\* BuiltVersionRegistry::lookup_id
lookup_id(reg, id) ==
    IF id \in DOMAIN reg.ids
    THEN [some |-> TRUE, ver |-> reg.ids[id]]
    ELSE [some |-> FALSE, ver |-> <<>>]

\* BuiltVersionRegistry::num_version
num_version(reg) == Cardinality(DOMAIN reg.versions)

\* The versions pushed; no two of them are incomparable.
VersionPool == {V123, V123alpha, V12, V20, V123beta}

\* WipVersionRegistry::new
InternInit ==
    /\ \E k \in 0..MaxPush : \E pushes \in [1..k -> VersionPool] :
          input = [pushes |-> pushes]
    /\ graph = NoGraph
    /\ pd = IdlePd
    /\ last = NoLast
    /\ sv = [pc |-> "wip", versions |-> <<>>]

\* WipVersionRegistry::push
Push ==
    /\ sv.pc = "wip"
    /\ Len(sv.versions) < Len(input.pushes)
    /\ sv' = [sv EXCEPT !.versions = Append(@, input.pushes[Len(@) + 1])]
    /\ UNCHANGED <<input, graph, pd, last>>

Build ==
    /\ sv.pc = "wip"
    /\ Len(sv.versions) = Len(input.pushes)
    /\ sv' = WipVersionRegistry_build(sv.versions)
    /\ UNCHANGED <<input, graph, pd, last>>

InternNext == Push \/ Build

SpecIntern == InternInit /\ [][InternNext]_vars

\* C21 (as claimed): after interning 1.2.3, 1.2.3-alpha, 1.2 and 2.0 the
\* indices satisfy idx(1.2.3-alpha) < idx(1.2.3) < idx(2.0) < idx(1.2).
C21_S6AsClaimed ==
    (sv.pc = "built" /\ Range(input.pushes) = {V123, V123alpha, V12, V20}
        /\ Len(input.pushes) = 4)
    => /\ lookup(sv, V123alpha).id < lookup(sv, V123).id
       /\ lookup(sv, V123).id < lookup(sv, V20).id
       /\ lookup(sv, V20).id < lookup(sv, V12).id

\* C21 (amended): the indices satisfy
\* idx(1.2.3-alpha) < idx(1.2.3) < idx(1.2) < idx(2.0).
C21_S6Amended ==
    (sv.pc = "built" /\ Range(input.pushes) = {V123, V123alpha, V12, V20}
        /\ Len(input.pushes) = 4)
    => /\ lookup(sv, V123alpha).id < lookup(sv, V123).id
       /\ lookup(sv, V123).id < lookup(sv, V12).id
       /\ lookup(sv, V12).id < lookup(sv, V20).id

C21_Witness ==
    /\ sv.pc = "built"
    /\ input.pushes = <<V20, V12, V123, V123alpha>>
    /\ \A v \in Range(input.pushes) : lookup(sv, v).some

\* C22 (as claimed): with N distinct versions pushed, build assigns exactly
\* the indices 0..N-1, one per distinct version, in increasing version order;
\* lookup_id inverts lookup on 0..N-1; a version never pushed has no index.
C22_InterningDense ==
    sv.pc = "built" =>
        LET distinct == Range(input.pushes)
            count == Cardinality(distinct)
        IN  /\ DOMAIN sv.ids = 0..(count - 1)
            /\ {lookup(sv, v).id : v \in distinct} = 0..(count - 1)
            /\ \A v \in distinct : lookup(sv, v).some
            /\ \A v, w \in distinct :
                  VersionCmp(v, w) = "Less"
                      => lookup(sv, v).id < lookup(sv, w).id
            /\ \A i \in 0..(count - 1) :
                  /\ lookup_id(sv, i).some
                  /\ lookup(sv, lookup_id(sv, i).ver) = [some |-> TRUE, id |-> i]
            /\ \A v \in VersionPool \ distinct : ~lookup(sv, v).some

----------------------------------------------------------------------------
(* Parser combinators: Cursor, LiteralConsumer, OptionalConsumer and
   BoundedConsumer *)

\* The longest text parsed.
MaxLen == 3

\* Cursor { text, offset }; the text is a sequence of one-byte characters.
Cursor(text, offset) == [text |-> text, offset |-> offset]

\* Cursor::remaining
remaining(cur) == SubSeq(cur.text, cur.offset + 1, Len(cur.text))

Parsed(out, cur) == [ok |-> TRUE, out |-> out, cur |-> cur]
ParseErr(cur) == [ok |-> FALSE, out |-> "", cur |-> cur]

\* Cursor::step: the next `chars` characters and the cursor behind them, or
\* an error when fewer remain.
step(cur, chars) ==
    IF chars > Len(remaining(cur)) THEN ParseErr(cur)
    ELSE Parsed(SubSeq(cur.text, cur.offset + 1, cur.offset + chars),
                Cursor(cur.text, cur.offset + chars))

\* Option<usize>
NoneSize == [some |-> FALSE, n |-> 0]
SomeSize(n) == [some |-> TRUE, n |-> n]

LiteralConsumer(target) == [k |-> "Literal", target |-> target]
OptionalConsumer(opt) == [k |-> "Optional", opt |-> opt]
BoundedConsumer(min, max, parser) ==
    [k |-> "Bounded", min |-> min, max |-> max, parser |-> parser]

\* An Optional that steps over one character when its inner consumer fails
\* (the variant C24 is tested against).
OptionalConsumer_consume_steps(inner, cursor) ==
    IF inner.ok THEN Parsed([some |-> TRUE, out |-> inner.out], inner.cur)
    ELSE Parsed([some |-> FALSE, out |-> ""],
                IF step(cursor, 1).ok THEN step(cursor, 1).cur ELSE cursor)

\* OptionalConsumer::consume, given the outcome of the inner consumer.
OptionalConsumer_consume(inner, cursor) ==
    IF inner.ok THEN Parsed([some |-> TRUE, out |-> inner.out], inner.cur)
    ELSE Parsed([some |-> FALSE, out |-> ""], cursor)

\* Consumer::consume of a LiteralConsumer (MatchConsumer) and of an
\* OptionalConsumer.
RECURSIVE consume(_, _)
consume(c, cursor) ==
    CASE c.k = "Literal" ->
            LET s == step(cursor, Len(c.target))
            IN  IF s.ok /\ s.out = c.target THEN Parsed("()", s.cur)
                ELSE ParseErr(cursor)
      [] c.k = "Optional" ->
            OptionalConsumer_consume(consume(c.opt, cursor), cursor)

\* (min..max).contains(&len) with min.unwrap_or(0) and
\* max.unwrap_or(usize::MAX); no Vec is as long as usize::MAX.
InBounds(min, max, len) ==
    /\ (IF min.some THEN min.n ELSE 0) <= len
    /\ max.some => len < max.n

\* The state of one consume call: `res` and `cur` are the locals of
\* BoundedConsumer::consume, `out` and `cur` the returned pair.
ParseStart == [pc |-> "start", res |-> <<>>, cur |-> Cursor(<<>>, 0), out |-> <<>>]

\* let mut res = Vec::new(); let mut cur = cursor;
BoundedBegin ==
    /\ sv.pc = "start"
    /\ input.consumer.k = "Bounded"
    /\ sv' = [sv EXCEPT !.pc = "loop", !.cur = input.cursor]
    /\ UNCHANGED <<input, graph, pd, last>>

\* One turn of `while let Ok((parsed, new_cursor)) = self.parser.consume(cur)`.
\* A loop whose inner consumer moves the cursor makes at most MaxLen turns,
\* so the guard on the length of `res` only stops loops that no longer move.
BoundedIterate ==
    /\ sv.pc = "loop"
    /\ Len(sv.res) < MaxLen + 2
    /\ LET r == consume(input.consumer.parser, sv.cur)
       IN  /\ r.ok
           /\ sv' = [sv EXCEPT !.res = Append(@, r.out), !.cur = r.cur]
    /\ UNCHANGED <<input, graph, pd, last>>

\* The loop ends with the first failure of the inner consumer; the number of
\* matches decides between Ok((res, cur)) and Err.
BoundedEnd ==
    /\ sv.pc = "loop"
    /\ ~consume(input.consumer.parser, sv.cur).ok
    /\ sv' = IF InBounds(input.consumer.min, input.consumer.max, Len(sv.res))
             THEN [sv EXCEPT !.pc = "ok", !.out = sv.res]
             ELSE [sv EXCEPT !.pc = "err"]
    /\ UNCHANGED <<input, graph, pd, last>>

\* OptionalConsumer::consume as the outermost consumer.
OptionalConsume ==
    /\ sv.pc = "start"
    /\ input.consumer.k = "Optional"
    /\ LET r == consume(input.consumer, input.cursor)
       IN  sv' = [sv EXCEPT !.pc = IF r.ok THEN "ok" ELSE "err",
                            !.out = r.out, !.cur = r.cur]
    /\ UNCHANGED <<input, graph, pd, last>>

\* The texts, cursors and consumers explored.
Chars == {"A", "h"}
Texts == UNION {[1..n -> Chars] : n \in 0..MaxLen}
InnerConsumers ==
    {LiteralConsumer(<<"A">>), LiteralConsumer(<<"A", "A">>),
     LiteralConsumer(<<>>), OptionalConsumer(LiteralConsumer(<<"A">>))}
Sizes == {NoneSize, SomeSize(0), SomeSize(1), SomeSize(2)}
Consumers ==
    {BoundedConsumer(min, max, parser) :
        min \in Sizes, max \in Sizes, parser \in InnerConsumers}
    \cup {OptionalConsumer(opt) : opt \in InnerConsumers}

ParseInit ==
    /\ \E text \in Texts : \E offset \in 0..Len(text) :
          \E consumer \in Consumers :
             input = [consumer |-> consumer, cursor |-> Cursor(text, offset)]
    /\ graph = NoGraph
    /\ pd = IdlePd
    /\ last = NoLast
    /\ sv = ParseStart

ParseNext == BoundedBegin \/ BoundedIterate \/ BoundedEnd \/ OptionalConsume

\* A call that has started runs on: the loop takes its next turn or ends.
SpecParse == ParseInit /\ [][ParseNext]_vars /\ WF_vars(ParseNext)

RECURSIVE Repeat(_, _)
Repeat(target, n) == IF n = 0 THEN <<>> ELSE target \o Repeat(target, n - 1)

\* C23 (as claimed): BoundedConsumer::consume applies the inner consumer from
\* the given cursor until it first fails, and succeeds, returning all matches
\* in order and the cursor behind the last, exactly when their number is at
\* least min (0 when missing) and at most max (unbounded when missing).
C23_BoundedWithinMinMax ==
    (input.consumer.k = "Bounded" /\ sv.pc \in {"ok", "err"}) =>
        LET c == input.consumer
        IN  /\ ~consume(c.parser, sv.cur).ok
            /\ c.parser.k = "Literal" =>
                  remaining(input.cursor) =
                      Repeat(c.parser.target, Len(sv.res)) \o remaining(sv.cur)
            /\ (sv.pc = "ok") =
                  (/\ (c.min.some => c.min.n <= Len(sv.res))
                   /\ (c.max.some => Len(sv.res) <= c.max.n))
            /\ sv.pc = "ok" => (sv.out = sv.res /\ Len(sv.out) = Len(sv.res))

\* C24: OptionalConsumer::consume never fails; when the inner consumer
\* succeeds it returns Some(result) with the inner consumer's cursor, when it
\* fails it returns None with a cursor whose remaining text is that of the
\* input cursor.
C24_OptionalNeverFails ==
    (input.consumer.k = "Optional" /\ sv.pc # "start") =>
        LET inner == consume(input.consumer.opt, input.cursor)
        IN  /\ sv.pc = "ok"
            /\ inner.ok => (sv.out = [some |-> TRUE, out |-> inner.out]
                               /\ sv.cur = inner.cur)
            /\ ~inner.ok => (~sv.out.some
                                /\ remaining(sv.cur) = remaining(input.cursor))

C24_Witness ==
    /\ input.consumer = OptionalConsumer(LiteralConsumer(<<"A">>))
    /\ input.cursor = Cursor(<<"A", "h", "A">>, 1)
    /\ sv.pc = "ok"
    /\ ~sv.out.some
    /\ remaining(sv.cur) = <<"h", "A">>

----------------------------------------------------------------------------
(* gen_spec_solver and the registry *)

\* The versions the outlines mention: 1.2 and 2.0.
VersionLiterals == <<V12, V20>>

\* The Version literals type_check pushes into the WIP version registry, in
\* order: Value::type_check pushes, Cmp, NumOf, Maximize and Minimize pass
\* the walk on to their children, IfThen does not.
RECURSIVE pushes(_)
pushes(c) ==
    CASE c.k = "Value" ->
            IF c.value.t = "Version" THEN <<c.value.v>> ELSE <<>>
      [] c.k = "Cmp" -> pushes(c.lhs) \o pushes(c.rhs)
      [] c.k = "NumOf" ->
            IF c.of = <<>> THEN <<>>
            ELSE pushes(Head(c.of)) \o pushes([c EXCEPT !.of = Tail(@)])
      [] c.k \in {"Maximize", "Minimize"} -> pushes(c.item)
      [] OTHER -> <<>>

RECURSIVE pushes_seq(_)
pushes_seq(cs) ==
    IF cs = <<>> THEN <<>>
    ELSE pushes(Head(cs).constraint) \o pushes_seq(Tail(cs))

\* The Version literals to_z3_clause translates with
\* SpecOptionValue::to_z3_dynamic.
RECURSIVE translated(_)
translated(c) ==
    CASE c.k = "Value" ->
            IF c.value.t = "Version" THEN {c.value.v} ELSE {}
      [] c.k \in {"Cmp", "Equal"} -> translated(c.lhs) \cup translated(c.rhs)
      [] c.k = "IfThen" -> translated(c.cond) \cup translated(c.then)
      [] c.k = "NumOf" -> UNION {translated(c.of[i]) : i \in DOMAIN c.of}
      [] OTHER -> {}

\* SpecOptionValue::to_z3_dynamic for a Version: the index the registry
\* holds, or u64::MAX when the lookup finds none.
to_z3_dynamic(version_registry, i) ==
    LET found == lookup(version_registry, VersionLiterals[i])
    IN  IF found.some THEN [max |-> FALSE, idx |-> found.id]
        ELSE [max |-> TRUE, idx |-> 0]

\* Registry: the option types and solver variables, the version registry,
\* the constraint descriptions and the id counter.
WipRegistry_new ==
    [types |-> <<>>, ast |-> <<>>, versions |-> <<>>,
     version_registry |-> [pc |-> "wip"],
     constraint_descriptions |-> <<>>, constraint_id |-> 0]

RegistryStart ==
    [pc |-> "start", error |-> "", registry |-> WipRegistry_new, emitted |-> {}]

RegFail(s, res) ==
    [s EXCEPT !.pc = IF res.st = "panic" THEN "panic" ELSE "err",
              !.error = res.error]

\* SpecOutline::type_check over the WIP registry.
RegTypeCheck ==
    /\ sv.pc = "start"
    /\ LET cs == AllConstraints(input.nodes, input.outlines)
           r == type_check_seq([i \in DOMAIN cs |-> cs[i].constraint], <<>>)
       IN  sv' = IF r.st = "ok"
                 THEN [sv EXCEPT !.pc = "typed",
                                 !.registry.types = r.types,
                                 !.registry.versions = pushes_seq(cs)]
                 ELSE RegFail(sv, r)
    /\ UNCHANGED <<input, graph, pd, last>>

\* create_tracking_variables; the SpecOption it is handed is
\* SpecOption::default(), whose value is None, so nothing is pushed.
RegCreateTrackingVariables ==
    /\ sv.pc = "typed"
    /\ LET names == Range(input.nodes)
           keys == UNION {OptionKeys(input.outlines[n]) : n \in names}
           toggles == {Toggle(n) : n \in names}
       IN  sv' = IF keys \subseteq DOMAIN sv.registry.types
                 THEN [sv EXCEPT
                          !.pc = "vars",
                          !.registry.ast =
                              [k \in toggles \cup keys |->
                                  IF k \in toggles THEN "Bool"
                                  ELSE sv.registry.types[k]]]
                 ELSE RegFail(sv, Z3Panic)
    /\ UNCHANGED <<input, graph, pd, last>>

\* Registry::build: the version registry is built, the rest is moved.
Registry_build(registry) ==
    [registry EXCEPT
        !.versions = <<>>,
        !.version_registry =
            WipVersionRegistry_build(
                [i \in DOMAIN registry.versions |->
                    VersionLiterals[registry.versions[i]]])]

RegBuild ==
    /\ sv.pc = "vars"
    /\ sv' = [sv EXCEPT !.pc = "built", !.registry = Registry_build(@)]
    /\ UNCHANGED <<input, graph, pd, last>>

\* What a phase that emits the literals `lits` hands to the solver.
Emit(registry, lits) ==
    {to_z3_dynamic(registry.version_registry, i) : i \in lits}

\* handle_explicit_options takes &Registry.
RegHandleExplicitOptions ==
    /\ sv.pc = "built"
    /\ LET pins == Pins(input.nodes, input.outlines)
       IN  sv' = IF \A pin \in pins :
                       to_z3_clause(PinEqual(pin), sv.registry).st = "ok"
                 THEN [sv EXCEPT
                          !.pc = "pinned",
                          !.emitted = @ \cup
                              Emit(sv.registry,
                                   UNION {translated(PinEqual(pin)) :
                                             pin \in pins})]
                 ELSE RegFail(sv, Z3Panic)
    /\ UNCHANGED <<input, graph, pd, last>>

\* require_packages takes &Registry.
RegRequirePackages ==
    /\ sv.pc = "pinned"
    /\ sv' = IF \A i \in DOMAIN input.required :
                    Toggle(input.required[i]) \in DOMAIN sv.registry.ast
             THEN [sv EXCEPT !.pc = "required"]
             ELSE RegFail(sv, Z3Err("MissingDependency"))
    /\ UNCHANGED <<input, graph, pd, last>>

\* An add_constraints that tracks each clause with
\* ConstraintUtils::add_to_solver, which takes a new constraint id (the
\* variant C27 is tested against).
add_constraints_registry_ids(registry, cs) ==
    [registry EXCEPT
        !.constraint_id = @ + Len(cs),
        !.constraint_descriptions =
            [i \in 0..(Len(cs) - 1) |-> cs[i + 1].constraint]]

\* add_constraints takes &Registry and names its tracking literals with
\* format!("{constraint:?}"): the registry stays as it is.
add_constraints_registry(registry, cs) == registry

RegAddConstraints ==
    /\ sv.pc = "required"
    /\ LET cs == AllConstraints(input.nodes, input.outlines)
           bad == {i \in DOMAIN cs :
                      AddConstraint(cs[i].constraint, sv.registry).st # "ok"}
           first == CHOOSE i \in bad : \A j \in bad : i <= j
       IN  sv' = IF bad = {}
                 THEN [sv EXCEPT
                          !.pc = "generated",
                          !.registry = add_constraints_registry(@, cs),
                          !.emitted = @ \cup
                              Emit(sv.registry,
                                   UNION {translated(cs[i].constraint) :
                                             i \in DOMAIN cs})]
                 ELSE RegFail(sv, AddConstraint(cs[first].constraint,
                                               sv.registry))
    /\ UNCHANGED <<input, graph, pd, last>>

\* Registry::eval_option takes &self and a &BuiltRegistry: decoding a model
\* reads the option table and the version registry.
RegEvalOptions ==
    /\ sv.pc = "generated"
    /\ sv' = [sv EXCEPT !.pc = "decoded"]
    /\ UNCHANGED <<input, graph, pd, last>>

\* The outlines explored: package a with a Version option w, package b.
RegNodes == <<"a", "b">>
W == SpecOption("a", "w")
WIs(op, i) == Cmp(W, Value(VersionVal(i)), op)

RegConstraints ==
    [a |-> {<<>>,
            <<WIs("==", 1)>>,
            <<WIs(">=", 1), WIs("<=", 2)>>,
            <<WIs("==", 1), WIs("!=", 1)>>,
            <<WIs("==", 1), IfThen(WIs("==", 2), Depends("b"))>>,
            <<IfThen(WIs("==", 1), Depends("b"))>>,
            <<Cmp(NumOf(<<WIs("==", 1), WIs("==", 2)>>), Value(IntVal(1)), "==")>>,
            <<Cmp(W, Value(IntVal(1)), "=="), WIs("==", 1)>>},
     b |-> {<<>>, <<WIs("<=", 2)>>}]

RegOptions ==
    [a |-> {<<>>, [o \in {"w"} |-> VersionVal(1)], [o \in {"w"} |-> VersionVal(2)]},
     b |-> {<<>>}]

RegRequired == {<<>>, <<"a">>, <<"a", "b">>, <<"z">>}

RegInit ==
    /\ \E ca \in RegConstraints["a"] : \E cb \in RegConstraints["b"] :
       \E oa \in RegOptions["a"] : \E req \in RegRequired :
          input = [nodes |-> RegNodes,
                   outlines |-> [n \in Range(RegNodes) |->
                                    IF n = "a" THEN PackageOutline(ca, oa, <<>>)
                                    ELSE PackageOutline(cb, <<>>, <<>>)],
                   required |-> req]
    /\ graph = SpecOutline_new(input.nodes, input.outlines, "")
    /\ pd = IdlePd
    /\ last = NoLast
    /\ sv = RegistryStart

RegNext ==
    \/ RegTypeCheck
    \/ RegCreateTrackingVariables
    \/ RegBuild
    \/ RegHandleExplicitOptions
    \/ RegRequirePackages
    \/ RegAddConstraints
    \/ RegEvalOptions

SpecRegistry == RegInit /\ [][RegNext]_vars

----------------------------------------------------------------------------
(* The option table of the registry *)

\* The number of calls made on one registry.
MaxCalls == 4

\* An Option<Dynamic>: no solver variable, or one of two variables.
NoDynamic == "none"
Dynamics == {"d1", "d2"}

\* Registry::new keeps an empty spec_option_map and an empty spec_options.
Registry_new ==
    [pc |-> "ok", error |-> "", call |-> [op |-> "new"],
     spec_option_map |-> <<>>, spec_options |-> <<>>]

\* Registry::lookup_option: the index the map holds for the key, if any.
Registry_lookup_option(reg, key) ==
    IF key \in DOMAIN reg.spec_option_map
    THEN [some |-> TRUE, idx |-> reg.spec_option_map[key]]
    ELSE [some |-> FALSE, idx |-> 0]

\* Registry::insert_option: a known key with another type panics; otherwise
\* a new entry is pushed and the key is pointed at it, known key or not.
Registry_insert_option(reg, key, dtype, value) ==
    LET found == Registry_lookup_option(reg, key)
    IN  IF found.some /\ reg.spec_options[found.idx + 1].dtype # dtype
        THEN [reg EXCEPT !.pc = "panic"]
        ELSE [reg EXCEPT
                 !.pc = "ok", !.error = "",
                 !.spec_option_map =
                     [k \in DOMAIN reg.spec_option_map \cup {key} |->
                         IF k = key THEN Len(reg.spec_options)
                         ELSE reg.spec_option_map[k]],
                 !.spec_options =
                     Append(@, [dtype |-> dtype, value |-> value])]

\* Registry::set_option_value: an unknown key is an error, an entry whose
\* variable is set panics, an entry without one takes the variable.
Registry_set_option_value(reg, key, value) ==
    LET found == Registry_lookup_option(reg, key)
    IN  IF ~found.some
        THEN [reg EXCEPT !.pc = "err",
                         !.error = IF key[2] # NoOpt THEN "MissingVariable"
                                   ELSE "MissingPackage"]
        ELSE IF reg.spec_options[found.idx + 1].value # NoDynamic
        THEN [reg EXCEPT !.pc = "panic"]
        ELSE [reg EXCEPT !.pc = "ok", !.error = "",
                         !.spec_options[found.idx + 1].value = value]

TableKeys == {Toggle("a"), <<"a", "x">>}
TableTypes == {"Bool", "Int"}

TableInit ==
    /\ input = [keys |-> TableKeys]
    /\ graph = NoGraph
    /\ pd = IdlePd
    /\ last = NoLast
    /\ sv = Registry_new

\* A call is made on a registry that has not panicked.
CanCall ==
    /\ sv.pc \in {"ok", "err"}
    /\ Len(sv.spec_options) < MaxCalls

InsertOption ==
    /\ CanCall
    /\ \E key \in input.keys : \E dtype \in TableTypes : \E value \in Dynamics :
          sv' = [Registry_insert_option(sv, key, dtype, value) EXCEPT
                    !.call = [op |-> "insert_option", key |-> key]]
    /\ UNCHANGED <<input, graph, pd, last>>

\* Registry::insert_option_type is insert_option without a variable.
InsertOptionType ==
    /\ CanCall
    /\ \E key \in input.keys : \E dtype \in TableTypes :
          sv' = [Registry_insert_option(sv, key, dtype, NoDynamic) EXCEPT
                    !.call = [op |-> "insert_option_type", key |-> key]]
    /\ UNCHANGED <<input, graph, pd, last>>

SetOptionValue ==
    /\ CanCall
    /\ \E key \in input.keys : \E value \in Dynamics :
          sv' = [Registry_set_option_value(sv, key, value) EXCEPT
                    !.call = [op |-> "set_option_value", key |-> key]]
    /\ UNCHANGED <<input, graph, pd, last>>

TableNext == InsertOption \/ InsertOptionType \/ SetOptionValue

SpecTable == TableInit /\ [][TableNext]_vars

\* The variable lookup_option resolves to for the key, NoDynamic without one.
ResolvedValue(reg, key) ==
    LET found == Registry_lookup_option(reg, key)
    IN  IF found.some THEN reg.spec_options[found.idx + 1].value
        ELSE NoDynamic

----------------------------------------------------------------------------
(* Claims about a None default, the registry and the order of the phases *)

\* C25 (as claimed): when propagate_defaults handles an option that the
\* source package P maps to None, a default the successor D has for the option
\* is removed from D, and a D without one is left unchanged.
C25_NoneRemovesSuccessorDefault ==
    [][(pd.pc = "opt" /\ pd' # pd /\ last'.src_val = NoneVal)
          => graph'.defaults[pd.dep] = Remove(graph.defaults[pd.dep], last'.opt)
      ]_vars

\* C26 (as claimed): every Version value translated for the solver was
\* pushed before the registry was built, so no translation falls back to
\* u64::MAX.
C26_VersionsPushedBeforeBuild ==
    \A e \in sv.emitted : ~e.max

\* C27: once the registry is built, explicit-option, required-root and
\* constraint assertion and model decoding change nothing in it.
C27_BuiltRegistryImmutable ==
    [][sv.pc \in {"built", "pinned", "required", "generated"}
          => sv'.registry = sv.registry]_vars

C27_Witness ==
    /\ sv.pc = "decoded"
    /\ input.outlines["a"].constraints = <<WIs(">=", 1), WIs("<=", 2)>>
    /\ input.outlines["a"].set_options = [o \in {"w"} |-> VersionVal(1)]
    /\ input.required = <<"a">>
    /\ DOMAIN sv.registry.version_registry.ids = {0, 1}
    /\ sv.registry.constraint_id = 0

\* C28 (as claimed): once the solver variable of a key is set, every later
\* call leaves the entry that lookup_option resolves to for the key with
\* that variable, and a set_option_value for the key fails.
C28_SetOnce ==
    [][\A key \in TableKeys :
          ResolvedValue(sv, key) # NoDynamic =>
              /\ ResolvedValue(sv', key) = ResolvedValue(sv, key)
              /\ (sv'.call = [op |-> "set_option_value", key |-> key]
                     => sv'.pc # "ok")
      ]_vars

\* C29: within one gen_spec_solver call every step ends one phase and is
\* followed by the next one in the order type check, variable creation,
\* registry build, explicit options, required roots, constraints; after a
\* step the effects of the phases run so far are complete and those of the
\* later ones absent; a phase that fails is the last step of the call, so
\* that the call never gets to return an optimizer and a registry.
C29_PhasesInOrder ==
    [][LET Phases == <<"start", "typed", "vars", "built", "pinned",
                       "required", "generated">>
           Done(s) == CHOOSE i \in DOMAIN Phases : Phases[i] = s.pc
           cs == AllConstraints(input.nodes, input.outlines)
           names == Range(input.nodes)
           keys == UNION {OptionKeys(input.outlines[n]) : n \in names}
           Effects(s, i) ==
               /\ s.types = IF i >= 2
                            THEN type_check_seq([j \in DOMAIN cs |->
                                                    cs[j].constraint],
                                                <<>>).types
                            ELSE <<>>
               /\ DOMAIN s.ast = IF i >= 3
                                 THEN {Toggle(n) : n \in names} \cup keys
                                 ELSE {}
               /\ s.soft = IF i >= 3 THEN SoftToggles(input.nodes) ELSE <<>>
               /\ s.hard =
                     (IF i >= 5 THEN PinAssertions(input.nodes, input.outlines)
                      ELSE {})
                     \cup (IF i >= 6 THEN RequireAssertions(input.required)
                           ELSE {})
                     \cup (IF i >= 7 THEN ConstraintAssertions(cs) ELSE {})
       IN  /\ sv.pc \notin {"err", "panic"}
           /\ sv.pc \in Range(Phases) \ {"generated"} =>
                 /\ sv'.pc \in {Phases[Done(sv) + 1], "err", "panic"}
                 /\ sv'.pc \in Range(Phases) => Effects(sv', Done(sv'))
      ]_vars

C29_Witness ==
    /\ sv.pc = "generated"
    /\ PinAssertions(input.nodes, input.outlines) # {}
    /\ RequireAssertions(input.required) # {}
    /\ ConstraintAssertions(AllConstraints(input.nodes, input.outlines)) # {}
    /\ sv.hard = PinAssertions(input.nodes, input.outlines)
                    \cup RequireAssertions(input.required)
                    \cup ConstraintAssertions(
                             AllConstraints(input.nodes, input.outlines))

====
